---------------------------- MODULE Spec2Model ----------------------------
(***************************************************************************)
(* The asynchronous request layer of claude-resume:                        *)
(*   - AsyncExecutor (internal/sessions/async.go): Submit, Cancel,         *)
(*     CancelAll, Close, Start/processRequests/handleRequest;              *)
(*   - the Execute*QueryAsync workers, the Fetch*Async callers and the     *)
(*     load*Cmd commands built on them;                                    *)
(*   - the presentation loop (model.Update) that consumes loaded events.   *)
(***************************************************************************)
EXTENDS Integers, Sequences, FiniteSets, TLC

(***************************************************************************)
(* Bounds of the model.                                                    *)
(***************************************************************************)
\* number of Submit calls made on the executor
MaxReq == 2
\* largest number of rows a query returns
MaxRows == 1

\* number of fetches (Fetch*Async calls) started
MaxFetch == 2

\* number of session ids a summary lookup is asked for
MaxIds == 3

\* number of messages of a session
MaxMsgs == 24

\* length of the texts given to wrapText
MaxText == 6

\* the widths given to wrapText go from -MaxWidth to MaxWidth
MaxWidth == 4

\* number of rows the sessions query returns
MaxScan == 2

\* number of projects given to the tui, and of sessions of a project
MaxProjects == 3
MaxSessions == 3

\* the messages shown from either end of a session (row_num_asc <= 10, row_num_desc <= 10)
PreviewEdge == 10

\* the number of messages above which an omission line is shown (totalCount > 20)
PreviewFull == 20

\* make(chan SQLRequest, 10)
QueueCap == 10
\* make(chan AsyncQueryResult, 1), make(chan map[string]string, 1)
ResultCap == 1

ReqIds == 1..MaxReq
Fetches == 1..MaxFetch
None == 0

\* the four fetch kinds and the loaded event each load*Cmd returns
Kinds == {"projects", "sessions", "messages", "summaries"}
QueryKinds == {"projects", "sessions", "messages"}
\* session ids and the project path used as fetch keys
SessionIDs == {"s1", "s2"}
ProjectPath == "/test"

\* LoadingState values a request can carry in SQLRequest.Type
StateIdle == "StateIdle"
StateLoadingProjects == "StateLoadingProjects"
StateLoadingSessions == "StateLoadingSessions"
StateLoadingMessages == "StateLoadingMessages"
StateCancelling == "StateCancelling"
StateError == "StateError"
RowTypes == {StateLoadingProjects, StateLoadingSessions, StateLoadingMessages}
ReqTypes == RowTypes \cup {StateIdle}

\* ---- AsyncExecutor, then Execute*QueryAsync / Fetch*Async / load*Cmd, then the tui ----
VARIABLES
    closed,         \* e.closed; the requests channel is closed in the same critical section
    requests,       \* buffer of the channel e.requests: sequence of request ids
    contexts,       \* keys of the map e.contexts (the value of key r is r's cancel func)
    reqState,       \* per Submit call: where the request is
    callerDone,     \* requests whose req.Context (the one given to Submit) is done
    ctxCancelled,   \* requests whose cancel func (handleRequest's WithCancel) was called
    heldCancels,    \* cancel funcs read from the map by Cancel/CancelAll, not yet called
    wpc,            \* the processRequests goroutine: where it is
    wreq,           \* the request handleRequest is running, or None
    wrows,          \* rows not yet returned by rows.Next()
    results,        \* SQLResult values delivered to the consumer
    panicked,       \* a send on the closed channel happened
    added,          \* per request: number of times handleRequest stored its entry
    removed,        \* per request: number of times a present entry was deleted
    lastCall,       \* the last call of the executor's API and what it found
    \* ---- Execute*QueryAsync / Fetch*Async / load*Cmd ----
    fkind,          \* per fetch: its kind, "none" before it is started
    fkey,           \* per fetch: the sessionID or projectPath it was started for
    fctxDone,       \* fetches whose ctx (the argument of Fetch*Async) is cancelled
    ftimedOut,      \* fetches whose queryCtx deadline (WithTimeout) has expired
    fwpc,           \* per fetch: where the worker goroutine is
    ferr,           \* per fetch: the error QueryContext returned
    frows,          \* per fetch: rows not yet returned by rows.Next()
    facc,           \* per fetch: rows appended to the result so far
    fchan,          \* per fetch: buffer of its result channel
    fchanClosed,    \* fetches whose result channel is closed
    fcpc,           \* per fetch: where the Fetch*Async call (the command) is
    events,         \* loaded events returned by commands, not yet processed by Update
    fsent,          \* per fetch: values sent on the result channel, each with whether
                    \*   ctx was already cancelled at the send
    femitted,       \* per fetch: loaded events returned, each with whether ctx was
                    \*   already cancelled when the command was at its select
    \* ---- the presentation loop ----
    m,              \* the tui model (Bubble Tea passes it through Update by value)
    lastMsg,        \* the message Update processed last, and what it met
    upc,            \* where Update is: "idle", or the source call it is inside of
    resume,         \* what runTUI did after the tui: nothing yet, returned, or resumed
    sb,             \* one call of FetchSessionSummariesAsync seen query by query
    mp,             \* one run of the row loop that builds the message preview
    rs,             \* one call of ExecuteClaudeResume
    wt,             \* one call of wrapText
    sf,             \* one call of FetchSessionsForProjectAsync seen row by row
    tm,             \* the model of tui.go, key by key
    conn,           \* the fetch that has the one connection of the pool, None when free
    \* ---- the executor's RWMutex, statement by statement ----
    mu,             \* e.mu: the goroutine holding it for writing, those holding it for reading
    lpc,            \* per goroutine using e.mu: the statement it is at
    lheld           \* per goroutine: the cancel funcs it read from the map, not yet called

execVars == <<closed, requests, contexts, reqState, callerDone, ctxCancelled,
              heldCancels, wpc, wreq, wrows, results, panicked, added, removed,
              lastCall>>

fetchVars == <<fkind, fkey, fctxDone, ftimedOut, fwpc, ferr, frows, facc, fchan,
               fchanClosed, fcpc, events, fsent, femitted>>

tuiVars == <<m, lastMsg, upc, resume>>

lockVars == <<mu, lpc, lheld>>

callVars == <<sb, mp, rs, wt, sf, tm>>

connVars == <<conn>>

vars == <<execVars, fetchVars, tuiVars, lockVars, callVars, connVars>>

(***************************************************************************)
(* AsyncExecutor                                                           *)
(***************************************************************************)

\* NewAsyncExecutor: empty channel, empty map, not closed, not started
ExecInit ==
    /\ closed = FALSE
    /\ requests = <<>>
    /\ contexts = {}
    /\ reqState = [r \in ReqIds |-> "unused"]
    /\ callerDone = {}
    /\ ctxCancelled = {}
    /\ heldCancels = {}
    /\ wpc = "off"
    /\ wreq = None
    /\ wrows = 0
    /\ results = {}
    /\ panicked = FALSE
    /\ added = [r \in ReqIds |-> 0]
    /\ removed = [r \in ReqIds |-> 0]
    /\ lastCall = [op |-> "none", id |-> None, found |-> FALSE]

\* the context handleRequest runs the query under: WithCancel(req.Context)
CtxDone(r) == r \in ctxCancelled \/ r \in callerDone

\* the next Submit call gets the next fresh id (uuid.New())
NextId == IF \E r \in ReqIds : reqState[r] = "unused"
          THEN CHOOSE r \in ReqIds : reqState[r] = "unused" /\
                                      \A q \in ReqIds : q < r => reqState[q] # "unused"
          ELSE None

\* Start: go e.processRequests()
Start ==
    /\ wpc = "off"
    /\ wpc' = "idle"
    /\ UNCHANGED <<closed, requests, contexts, reqState, callerDone, ctxCancelled,
                   heldCancels, wreq, wrows, results, panicked, added, removed, lastCall>>

\* Submit, first part: the closed check under RLock
SubmitCheck ==
    /\ NextId # None
    /\ ~panicked
    /\ LET r == NextId IN
       /\ reqState' = [reqState EXCEPT ![r] = IF closed THEN "rejected" ELSE "checked"]
       /\ lastCall' = [op |-> "Submit", id |-> r, found |-> ~closed]
    /\ UNCHANGED <<closed, requests, contexts, callerDone, ctxCancelled, heldCancels,
                   wpc, wreq, wrows, results, panicked, added, removed>>

\* Submit, second part: select { case e.requests <- req ; case <-ctx.Done() }
SubmitSelect(r) ==
    /\ reqState[r] = "checked"
    /\ ~panicked
    /\ \/ /\ ~closed
          /\ Len(requests) < QueueCap
          /\ requests' = Append(requests, r)
          /\ reqState' = [reqState EXCEPT ![r] = "queued"]
          /\ UNCHANGED panicked
       \/ /\ closed                       \* send on a closed channel
          /\ panicked' = TRUE
          /\ UNCHANGED <<requests, reqState>>
       \/ /\ r \in callerDone
          /\ reqState' = [reqState EXCEPT ![r] = "rejected"]
          /\ UNCHANGED <<requests, panicked>>
    /\ UNCHANGED <<closed, contexts, callerDone, ctxCancelled, heldCancels,
                   wpc, wreq, wrows, results, added, removed, lastCall>>

\* the caller of Submit cancels the context it passed in
CallerCancel(r) ==
    /\ reqState[r] \in {"checked", "queued", "handling"}
    /\ r \notin callerDone
    /\ ~panicked
    /\ callerDone' = callerDone \cup {r}
    /\ UNCHANGED <<closed, requests, contexts, reqState, ctxCancelled, heldCancels,
                   wpc, wreq, wrows, results, panicked, added, removed, lastCall>>

\* processRequests that takes the request sent last instead of the one sent first
HandleRegisterNewest ==
    /\ wpc = "idle"
    /\ ~panicked
    /\ requests # <<>>
    /\ LET r == requests[Len(requests)] IN
       /\ requests' = SubSeq(requests, 1, Len(requests) - 1)
       /\ wreq' = r
       /\ contexts' = contexts \cup {r}
       /\ added' = [added EXCEPT ![r] = @ + 1]
       /\ reqState' = [reqState EXCEPT ![r] = "handling"]
    /\ wpc' = "query"
    /\ UNCHANGED <<closed, callerDone, ctxCancelled, heldCancels, wrows, results,
                   panicked, removed, lastCall>>

\* processRequests takes the next request; handleRequest stores its cancel func
HandleRegister ==
    /\ wpc = "idle"
    /\ ~panicked
    /\ requests # <<>>
    /\ LET r == Head(requests) IN
       /\ requests' = Tail(requests)
       /\ wreq' = r
       /\ contexts' = contexts \cup {r}
       /\ added' = [added EXCEPT ![r] = @ + 1]
       /\ reqState' = [reqState EXCEPT ![r] = "handling"]
    /\ wpc' = "query"
    /\ UNCHANGED <<closed, callerDone, ctxCancelled, heldCancels, wrows, results,
                   panicked, removed, lastCall>>

\* e.db.QueryContext(ctx, ...): an error (always when ctx is already done), or rows;
\* then the switch on req.Type: only the three loading types read the rows
HandleQuery ==
    /\ wpc = "query"
    /\ ~panicked
    /\ \/ /\ wpc' = "cleanup"             \* err != nil: return, nothing is sent
          /\ wrows' = 0
       \/ /\ ~CtxDone(wreq)
          /\ \E n \in 0..MaxRows, t \in ReqTypes :
                IF t \in RowTypes
                THEN wpc' = "rows" /\ wrows' = n
                ELSE wpc' = "cleanup" /\ wrows' = 0
    /\ UNCHANGED <<closed, requests, contexts, reqState, callerDone, ctxCancelled,
                   heldCancels, wreq, results, panicked, added, removed, lastCall>>

\* for rows.Next() { if ctx.Err() == context.Canceled { return } ... }
HandleRows ==
    /\ wpc = "rows"
    /\ ~panicked
    /\ IF wrows = 0
       THEN wpc' = "cleanup" /\ wrows' = 0           \* Next() is false
       ELSE IF CtxDone(wreq)
            THEN wpc' = "cleanup" /\ wrows' = 0      \* cancelled: return
            ELSE wpc' = "rows" /\ wrows' = wrows - 1 \* the row is processed, nothing is sent
    /\ UNCHANGED <<closed, requests, contexts, reqState, callerDone, ctxCancelled,
                   heldCancels, wreq, results, panicked, added, removed, lastCall>>

\* HandleCleanup with the delete placed after the early returns instead of in a defer:
\* a cancelled request returns without removing its entry
HandleCleanupNotDeferred ==
    /\ wpc = "cleanup"
    /\ ~panicked
    /\ contexts' = IF CtxDone(wreq) THEN contexts ELSE contexts \ {wreq}
    /\ removed' = [removed EXCEPT ![wreq] =
                      IF wreq \in contexts /\ ~CtxDone(wreq) THEN @ + 1 ELSE @]
    /\ reqState' = [reqState EXCEPT ![wreq] = "done"]
    /\ wreq' = None
    /\ wpc' = "idle"
    /\ UNCHANGED <<closed, requests, callerDone, ctxCancelled, heldCancels, wrows,
                   results, panicked, added, lastCall>>

\* the deferred delete(e.contexts, req.RequestID)
HandleCleanup ==
    /\ wpc = "cleanup"
    /\ ~panicked
    /\ contexts' = contexts \ {wreq}
    /\ removed' = [removed EXCEPT ![wreq] = IF wreq \in contexts THEN @ + 1 ELSE @]
    /\ reqState' = [reqState EXCEPT ![wreq] = "done"]
    /\ wreq' = None
    /\ wpc' = "idle"
    /\ UNCHANGED <<closed, requests, callerDone, ctxCancelled, heldCancels, wrows,
                   results, panicked, added, lastCall>>

\* for req := range e.requests ends once the channel is closed and drained
WorkerExit ==
    /\ wpc = "idle"
    /\ ~panicked
    /\ closed
    /\ requests = <<>>
    /\ wpc' = "stopped"
    /\ UNCHANGED <<closed, requests, contexts, reqState, callerDone, ctxCancelled,
                   heldCancels, wreq, wrows, results, panicked, added, removed, lastCall>>

\* Cancel that falls back to cancelling every request when the id is not found
CancelOrAll(r) ==
    /\ ~panicked
    /\ heldCancels' = IF r \in contexts THEN heldCancels \cup {r}
                                          ELSE heldCancels \cup contexts
    /\ lastCall' = [op |-> "Cancel", id |-> r, found |-> r \in contexts]
    /\ UNCHANGED <<closed, requests, contexts, reqState, callerDone, ctxCancelled,
                   wpc, wreq, wrows, results, panicked, added, removed>>

\* Cancel: the lookup under RLock; the cancel func found is called after the unlock
Cancel(r) ==
    /\ ~panicked
    /\ heldCancels' = IF r \in contexts THEN heldCancels \cup {r} ELSE heldCancels
    /\ lastCall' = [op |-> "Cancel", id |-> r, found |-> r \in contexts]
    /\ UNCHANGED <<closed, requests, contexts, reqState, callerDone, ctxCancelled,
                   wpc, wreq, wrows, results, panicked, added, removed>>

\* CancelAll that also empties the map
CancelAllAndClear ==
    /\ ~panicked
    /\ heldCancels' = heldCancels \cup contexts
    /\ contexts' = {}
    /\ lastCall' = [op |-> "CancelAll", id |-> None, found |-> contexts # {}]
    /\ UNCHANGED <<closed, requests, reqState, callerDone, ctxCancelled,
                   wpc, wreq, wrows, results, panicked, added, removed>>

\* CancelAll: the copy of every cancel func under RLock
CancelAll ==
    /\ ~panicked
    /\ heldCancels' = heldCancels \cup contexts
    /\ lastCall' = [op |-> "CancelAll", id |-> None, found |-> contexts # {}]
    /\ UNCHANGED <<closed, requests, contexts, reqState, callerDone, ctxCancelled,
                   wpc, wreq, wrows, results, panicked, added, removed>>

\* Cancel / CancelAll after the unlock: cancel()
InvokeCancel(r) ==
    /\ ~panicked
    /\ r \in heldCancels
    /\ heldCancels' = heldCancels \ {r}
    /\ ctxCancelled' = ctxCancelled \cup {r}
    /\ UNCHANGED <<closed, requests, contexts, reqState, callerDone, wpc, wreq, wrows,
                   results, panicked, added, removed, lastCall>>

\* Close without closeOnce: a second call closes the closed channel again
CloseNotOnce ==
    /\ ~panicked
    /\ closed' = TRUE
    /\ ctxCancelled' = ctxCancelled \cup contexts
    /\ panicked' = closed
    /\ lastCall' = [op |-> "Close", id |-> None, found |-> ~closed]
    /\ UNCHANGED <<requests, contexts, reqState, callerDone, heldCancels, wpc, wreq,
                   wrows, results, added, removed>>

\* Close: once; closed = true, close(e.requests), cancel every entry, all under the lock
Close ==
    /\ ~panicked
    /\ IF closed
       THEN UNCHANGED <<closed, ctxCancelled>>
       ELSE /\ closed' = TRUE
            /\ ctxCancelled' = ctxCancelled \cup contexts
    /\ lastCall' = [op |-> "Close", id |-> None, found |-> ~closed]
    /\ UNCHANGED <<requests, contexts, reqState, callerDone, heldCancels, wpc, wreq,
                   wrows, results, panicked, added, removed>>

\* the requests accepted before the Submit calls that are followed: they fill the channel
Earlier == (MaxReq + 1)..(MaxReq + QueueCap)

\* an executor whose channel holds QueueCap requests, not yet started
ExecInitQueueFull ==
    /\ closed = FALSE
    /\ requests = [i \in 1..QueueCap |-> MaxReq + i]
    /\ contexts = {}
    /\ reqState = [r \in ReqIds \cup Earlier |-> IF r \in Earlier THEN "queued" ELSE "unused"]
    /\ callerDone = {}
    /\ ctxCancelled = {}
    /\ heldCancels = {}
    /\ wpc = "off"
    /\ wreq = None
    /\ wrows = 0
    /\ results = {}
    /\ panicked = FALSE
    /\ added = [r \in ReqIds \cup Earlier |-> 0]
    /\ removed = [r \in ReqIds \cup Earlier |-> 0]
    /\ lastCall = [op |-> "none", id |-> None, found |-> FALSE]

\* the executor with callers that submit and never cancel by id
NextExecSubmit ==
    \/ Start /\ UNCHANGED <<fetchVars, tuiVars, lockVars, callVars, connVars>>
    \/ SubmitCheck /\ UNCHANGED <<fetchVars, tuiVars, lockVars, callVars, connVars>>
    \/ \E r \in ReqIds : SubmitSelect(r) /\ UNCHANGED <<fetchVars, tuiVars, lockVars, callVars, connVars>>
    \/ \E r \in ReqIds : CallerCancel(r) /\ UNCHANGED <<fetchVars, tuiVars, lockVars, callVars, connVars>>
    \/ HandleRegister /\ UNCHANGED <<fetchVars, tuiVars, lockVars, callVars, connVars>>
    \/ HandleQuery /\ UNCHANGED <<fetchVars, tuiVars, lockVars, callVars, connVars>>
    \/ HandleRows /\ UNCHANGED <<fetchVars, tuiVars, lockVars, callVars, connVars>>
    \/ HandleCleanup /\ UNCHANGED <<fetchVars, tuiVars, lockVars, callVars, connVars>>
    \/ WorkerExit /\ UNCHANGED <<fetchVars, tuiVars, lockVars, callVars, connVars>>
    \/ Close /\ UNCHANGED <<fetchVars, tuiVars, lockVars, callVars, connVars>>

NextExec ==
    \/ Start /\ UNCHANGED <<fetchVars, tuiVars, lockVars, callVars, connVars>>
    \/ SubmitCheck /\ UNCHANGED <<fetchVars, tuiVars, lockVars, callVars, connVars>>
    \/ \E r \in ReqIds : SubmitSelect(r) /\ UNCHANGED <<fetchVars, tuiVars, lockVars, callVars, connVars>>
    \/ \E r \in ReqIds : CallerCancel(r) /\ UNCHANGED <<fetchVars, tuiVars, lockVars, callVars, connVars>>
    \/ HandleRegister /\ UNCHANGED <<fetchVars, tuiVars, lockVars, callVars, connVars>>
    \/ HandleQuery /\ UNCHANGED <<fetchVars, tuiVars, lockVars, callVars, connVars>>
    \/ HandleRows /\ UNCHANGED <<fetchVars, tuiVars, lockVars, callVars, connVars>>
    \/ HandleCleanup /\ UNCHANGED <<fetchVars, tuiVars, lockVars, callVars, connVars>>
    \/ WorkerExit /\ UNCHANGED <<fetchVars, tuiVars, lockVars, callVars, connVars>>
    \/ \E r \in ReqIds : Cancel(r) /\ UNCHANGED <<fetchVars, tuiVars, lockVars, callVars, connVars>>
    \/ CancelAll /\ UNCHANGED <<fetchVars, tuiVars, lockVars, callVars, connVars>>
    \/ \E r \in ReqIds : InvokeCancel(r) /\ UNCHANGED <<fetchVars, tuiVars, lockVars, callVars, connVars>>
    \/ Close /\ UNCHANGED <<fetchVars, tuiVars, lockVars, callVars, connVars>>


(***************************************************************************)
(* AsyncExecutor statement by statement: e.mu and the accesses of          *)
(* e.contexts and e.closed                                                 *)
(***************************************************************************)

\* the goroutines that use e.mu: processRequests (handleRequest) and one caller each
\* of Cancel, CancelAll, Close and Submit
Procs == {"handler", "cancel", "cancelAll", "close", "submit"}
NoProc == ""

LockInit ==
    /\ mu = [w |-> NoProc, r |-> {}]
    /\ lpc = [p \in Procs |-> "idle"]
    /\ lheld = [p \in Procs |-> {}]

\* sync.RWMutex
MuLock(p) == mu.w = NoProc /\ mu.r = {} /\ mu' = [mu EXCEPT !.w = p]
MuUnlock(p) == mu' = [mu EXCEPT !.w = NoProc]
MuRLock(p) == mu.w = NoProc /\ mu' = [mu EXCEPT !.r = @ \cup {p}]
MuRUnlock(p) == mu' = [mu EXCEPT !.r = @ \ {p}]

\* what no statement of this part touches
lockFrame == <<requests, reqState, callerDone, heldCancels, wpc, wrows, results,
               panicked, lastCall, fetchVars, tuiVars, callVars, connVars>>

\* handleRequest for the next request: e.mu.Lock()
HandleLock ==
    /\ lpc["handler"] = "idle"
    /\ \E r \in ReqIds :
          /\ added[r] = 0
          /\ \A q \in ReqIds : q < r => added[q] > 0
          /\ wreq' = r
    /\ MuLock("handler")
    /\ lpc' = [lpc EXCEPT !["handler"] = "store"]
    /\ UNCHANGED <<closed, contexts, ctxCancelled, added, removed, lheld, lockFrame>>

\* e.contexts[req.RequestID] = cancel
HandleStore ==
    /\ lpc["handler"] = "store"
    /\ contexts' = contexts \cup {wreq}
    /\ added' = [added EXCEPT ![wreq] = @ + 1]
    /\ lpc' = [lpc EXCEPT !["handler"] = "storeUnlock"]
    /\ UNCHANGED <<closed, ctxCancelled, wreq, removed, mu, lheld, lockFrame>>

\* e.mu.Unlock(); the query then runs
HandleUnlock ==
    /\ lpc["handler"] = "storeUnlock"
    /\ MuUnlock("handler")
    /\ lpc' = [lpc EXCEPT !["handler"] = "run"]
    /\ UNCHANGED <<closed, contexts, ctxCancelled, wreq, added, removed, lheld, lockFrame>>

\* handleRequest returns: the deferred function's e.mu.Lock()
HandleDeferLock ==
    /\ lpc["handler"] = "run"
    /\ MuLock("handler")
    /\ lpc' = [lpc EXCEPT !["handler"] = "delete"]
    /\ UNCHANGED <<closed, contexts, ctxCancelled, wreq, added, removed, lheld, lockFrame>>

\* delete(e.contexts, req.RequestID)
HandleDelete ==
    /\ lpc["handler"] = "delete"
    /\ contexts' = contexts \ {wreq}
    /\ removed' = [removed EXCEPT ![wreq] = IF wreq \in contexts THEN @ + 1 ELSE @]
    /\ lpc' = [lpc EXCEPT !["handler"] = "deleteUnlock"]
    /\ UNCHANGED <<closed, ctxCancelled, wreq, added, mu, lheld, lockFrame>>

\* e.mu.Unlock() of the deferred function
HandleDeferUnlock ==
    /\ lpc["handler"] = "deleteUnlock"
    /\ MuUnlock("handler")
    /\ wreq' = None
    /\ lpc' = [lpc EXCEPT !["handler"] = "idle"]
    /\ UNCHANGED <<closed, contexts, ctxCancelled, added, removed, lheld, lockFrame>>

\* Cancel that reads the map without taking the lock
CancelNoRLock ==
    /\ lpc["cancel"] = "idle"
    /\ lpc' = [lpc EXCEPT !["cancel"] = "lookup"]
    /\ UNCHANGED <<closed, contexts, ctxCancelled, wreq, added, removed, mu, lheld,
                   lockFrame>>

\* Cancel: e.mu.RLock()
CancelRLock ==
    /\ lpc["cancel"] = "idle"
    /\ MuRLock("cancel")
    /\ lpc' = [lpc EXCEPT !["cancel"] = "lookup"]
    /\ UNCHANGED <<closed, contexts, ctxCancelled, wreq, added, removed, lheld, lockFrame>>

\* cancel, ok := e.contexts[requestID]
CancelLookup ==
    /\ lpc["cancel"] = "lookup"
    /\ \E r \in ReqIds :
          lheld' = [lheld EXCEPT !["cancel"] = IF r \in contexts THEN {r} ELSE {}]
    /\ lpc' = [lpc EXCEPT !["cancel"] = "lookupUnlock"]
    /\ UNCHANGED <<closed, contexts, ctxCancelled, wreq, added, removed, mu, lockFrame>>

\* e.mu.RUnlock()
CancelRUnlock ==
    /\ lpc["cancel"] = "lookupUnlock"
    /\ MuRUnlock("cancel")
    /\ lpc' = [lpc EXCEPT !["cancel"] = "call"]
    /\ UNCHANGED <<closed, contexts, ctxCancelled, wreq, added, removed, lheld, lockFrame>>

\* if ok { cancel() }
CancelCall ==
    /\ lpc["cancel"] = "call"
    /\ ctxCancelled' = ctxCancelled \cup lheld["cancel"]
    /\ lheld' = [lheld EXCEPT !["cancel"] = {}]
    /\ lpc' = [lpc EXCEPT !["cancel"] = "idle"]
    /\ UNCHANGED <<closed, contexts, wreq, added, removed, mu, lockFrame>>

\* CancelAll: e.mu.RLock()
CancelAllRLock ==
    /\ lpc["cancelAll"] = "idle"
    /\ MuRLock("cancelAll")
    /\ lpc' = [lpc EXCEPT !["cancelAll"] = "copy"]
    /\ UNCHANGED <<closed, contexts, ctxCancelled, wreq, added, removed, lheld, lockFrame>>

\* for _, cancel := range e.contexts { cancels = append(cancels, cancel) }
CancelAllCopy ==
    /\ lpc["cancelAll"] = "copy"
    /\ lheld' = [lheld EXCEPT !["cancelAll"] = contexts]
    /\ lpc' = [lpc EXCEPT !["cancelAll"] = "copyUnlock"]
    /\ UNCHANGED <<closed, contexts, ctxCancelled, wreq, added, removed, mu, lockFrame>>

\* e.mu.RUnlock()
CancelAllRUnlock ==
    /\ lpc["cancelAll"] = "copyUnlock"
    /\ MuRUnlock("cancelAll")
    /\ lpc' = [lpc EXCEPT !["cancelAll"] = "call"]
    /\ UNCHANGED <<closed, contexts, ctxCancelled, wreq, added, removed, lheld, lockFrame>>

\* for _, cancel := range cancels { cancel() }
CancelAllCall ==
    /\ lpc["cancelAll"] = "call"
    /\ ctxCancelled' = ctxCancelled \cup lheld["cancelAll"]
    /\ lheld' = [lheld EXCEPT !["cancelAll"] = {}]
    /\ lpc' = [lpc EXCEPT !["cancelAll"] = "idle"]
    /\ UNCHANGED <<closed, contexts, wreq, added, removed, mu, lockFrame>>

\* Close, the function run by closeOnce: e.mu.Lock()
CloseLock ==
    /\ lpc["close"] = "idle"
    /\ ~closed
    /\ MuLock("close")
    /\ lpc' = [lpc EXCEPT !["close"] = "closing"]
    /\ UNCHANGED <<closed, contexts, ctxCancelled, wreq, added, removed, lheld, lockFrame>>

\* e.closed = true; close(e.requests); for _, cancel := range e.contexts { cancel() }
CloseBody ==
    /\ lpc["close"] = "closing"
    /\ closed' = TRUE
    /\ ctxCancelled' = ctxCancelled \cup contexts
    /\ lpc' = [lpc EXCEPT !["close"] = "closeUnlock"]
    /\ UNCHANGED <<contexts, wreq, added, removed, mu, lheld, lockFrame>>

\* e.mu.Unlock()
CloseUnlock ==
    /\ lpc["close"] = "closeUnlock"
    /\ MuUnlock("close")
    /\ lpc' = [lpc EXCEPT !["close"] = "idle"]
    /\ UNCHANGED <<closed, contexts, ctxCancelled, wreq, added, removed, lheld, lockFrame>>

\* Submit: e.mu.RLock()
SubmitRLock ==
    /\ lpc["submit"] = "idle"
    /\ MuRLock("submit")
    /\ lpc' = [lpc EXCEPT !["submit"] = "check"]
    /\ UNCHANGED <<closed, contexts, ctxCancelled, wreq, added, removed, lheld, lockFrame>>

\* if e.closed { e.mu.RUnlock(); return "" }; e.mu.RUnlock()
SubmitRUnlock ==
    /\ lpc["submit"] = "check"
    /\ MuRUnlock("submit")
    /\ lpc' = [lpc EXCEPT !["submit"] = "idle"]
    /\ UNCHANGED <<closed, contexts, ctxCancelled, wreq, added, removed, lheld, lockFrame>>

NextLock ==
    \/ HandleLock
    \/ HandleStore
    \/ HandleUnlock
    \/ HandleDeferLock
    \/ HandleDelete
    \/ HandleDeferUnlock
    \/ CancelRLock
    \/ CancelLookup
    \/ CancelRUnlock
    \/ CancelCall
    \/ CancelAllRLock
    \/ CancelAllCopy
    \/ CancelAllRUnlock
    \/ CancelAllCall
    \/ CloseLock
    \/ CloseBody
    \/ CloseUnlock
    \/ SubmitRLock
    \/ SubmitRUnlock


(***************************************************************************)
(* Execute*QueryAsync workers, Fetch*Async callers, load*Cmd commands       *)
(***************************************************************************)

FetchInit ==
    /\ fkind = [f \in Fetches |-> "none"]
    /\ fkey = [f \in Fetches |-> ""]
    /\ fctxDone = {}
    /\ ftimedOut = {}
    /\ fwpc = [f \in Fetches |-> "none"]
    /\ ferr = [f \in Fetches |-> "nil"]
    /\ frows = [f \in Fetches |-> 0]
    /\ facc = [f \in Fetches |-> 0]
    /\ fchan = [f \in Fetches |-> <<>>]
    /\ fchanClosed = {}
    /\ fcpc = [f \in Fetches |-> "none"]
    /\ events = <<>>
    /\ fsent = [f \in Fetches |-> <<>>]
    /\ femitted = [f \in Fetches |-> <<>>]

\* the next fetch not yet started
NextFetch == IF \E f \in Fetches : fkind[f] = "none"
             THEN CHOOSE f \in Fetches : fkind[f] = "none" /\
                                          \A g \in Fetches : g < f => fkind[g] # "none"
             ELSE None

\* AsyncQueryResult; its zero value is what a receive from the closed channel yields
AsyncQueryResult(err, n) == [Error |-> err, n |-> n]
ZeroResult == AsyncQueryResult("nil", 0)

\* the error of a done context
CtxErr == "context canceled"
DeadlineErr == "context deadline exceeded"
SourceErr == "source error"

\* a MessagesLoadedMsg whose SessionID is not the session the messages were read for
LoadedMsgOtherSession(kind, key, err, n, f) ==
    [type |-> kind,
     key |-> IF kind = "messages" THEN (IF key = "s1" THEN "s2" ELSE "s1")
             ELSE IF kind = "summaries" THEN key ELSE "",
     Error |-> err,
     of |-> IF kind = "messages" /\ err = "nil" THEN key ELSE "",
     n |-> IF err = "nil" \/ kind = "summaries" THEN n ELSE 0,
     from |-> f]

\* ProjectsLoadedMsg / SessionsLoadedMsg / MessagesLoadedMsg / SummariesLoadedMsg.
\* Only MessagesLoadedMsg (SessionID) and SummariesLoadedMsg (ProjectPath) have a
\* field that tells what the event was loaded for; none carries a request id.
\* key is that field; of and n are the payload (whose session's messages, how many);
\* from is the fetch the event comes from: it is no field of the message.
LoadedMsg(kind, key, err, n, f) ==
    [type |-> kind,
     key |-> IF kind \in {"messages", "summaries"} THEN key ELSE "",
     Error |-> err,
     of |-> IF kind = "messages" /\ err = "nil" THEN key ELSE "",
     n |-> IF err = "nil" \/ kind = "summaries" THEN n ELSE 0,
     from |-> f]

\* a load*Cmd command is created for fetch f under a fresh context, after the cancel
\* funcs of the fetches in cancels were called: nothing of the fetch has run yet
IssueCmd(f, kind, key, cancels) ==
    /\ fkind' = [fkind EXCEPT ![f] = kind]
    /\ fkey' = [fkey EXCEPT ![f] = key]
    /\ fctxDone' = (fctxDone \cup cancels) \ {f}
    /\ ftimedOut' = ftimedOut \ {f}
    /\ fwpc' = [fwpc EXCEPT ![f] = "none"]
    /\ ferr' = [ferr EXCEPT ![f] = "nil"]
    /\ frows' = [frows EXCEPT ![f] = 0]
    /\ facc' = [facc EXCEPT ![f] = 0]
    /\ fchan' = [fchan EXCEPT ![f] = <<>>]
    /\ fchanClosed' = fchanClosed \ {f}
    /\ fcpc' = [fcpc EXCEPT ![f] = "start"]
    /\ fsent' = [fsent EXCEPT ![f] = <<>>]
    /\ femitted' = [femitted EXCEPT ![f] = <<>>]

\* load*Cmd's function starts running: Fetch*Async gets the database and starts the
\* worker (Execute*QueryAsync's goroutine, or the goroutine of FetchSessionSummariesAsync),
\* then waits in its select. A failing os.UserHomeDir() or db.GetDB() returns the error
\* at once, and FetchSessionSummariesAsync returns at once for an empty id list.
CmdStart(f) ==
    /\ fcpc[f] = "start"
    /\ \/ /\ fwpc' = [fwpc EXCEPT ![f] = IF fkind[f] = "summaries" THEN "check" ELSE "query"]
          /\ fcpc' = [fcpc EXCEPT ![f] = "wait"]
          /\ UNCHANGED <<events, femitted>>
       \/ /\ fwpc' = [fwpc EXCEPT ![f] = "exited"]      \* no worker is started
          /\ fcpc' = [fcpc EXCEPT ![f] = "returned"]
          /\ \E e \in IF fkind[f] = "summaries" THEN {"nil", SourceErr} ELSE {SourceErr} :
                events' = Append(events, LoadedMsg(fkind[f], fkey[f], e, 0, f))
          /\ femitted' = [femitted EXCEPT ![f] = Append(@, f \in fctxDone)]
    /\ UNCHANGED <<fkind, fkey, fctxDone, ftimedOut, ferr, frows, facc, fchan,
                   fchanClosed, fsent>>

\* some caller runs a load command of any kind
CallFetch ==
    /\ NextFetch # None
    /\ \E kind \in Kinds :
         \E key \in IF kind = "messages" THEN {"s1"} ELSE {ProjectPath} :
            IssueCmd(NextFetch, kind, key, {})
    /\ UNCHANGED events
    /\ UNCHANGED <<execVars, tuiVars, lockVars, callVars, connVars>>

\* the caller cancels the context it gave to the fetch
CancelCtx(f) ==
    /\ fkind[f] # "none"
    /\ f \notin fctxDone
    /\ fwpc[f] \notin {"none", "exited"} \/ fcpc[f] # "returned"
    /\ fctxDone' = fctxDone \cup {f}
    /\ UNCHANGED <<fkind, fkey, ftimedOut, fwpc, ferr, frows, facc, fchan, fchanClosed,
                   fcpc, events, fsent, femitted>>

\* the deadline of queryCtx (30 s, 15 s for messages) expires while the worker runs
Timeout(f) ==
    /\ fkind[f] \in QueryKinds
    /\ fwpc[f] \in {"query", "rows"}
    /\ f \notin ftimedOut
    /\ ftimedOut' = ftimedOut \cup {f}
    /\ UNCHANGED <<fkind, fkey, fctxDone, fwpc, ferr, frows, facc, fchan, fchanClosed,
                   fcpc, events, fsent, femitted>>

\* queryCtx: WithTimeout(ctx, ...)
QueryCtxDone(f) == f \in fctxDone \/ f \in ftimedOut

\* db.QueryContext(queryCtx, ...) returns: rows, or an error (the context's own error
\* when queryCtx is done, a source error otherwise)
WorkerQuery(f) ==
    /\ fwpc[f] = "query"
    /\ \/ \E n \in 0..MaxRows :
            /\ fwpc' = [fwpc EXCEPT ![f] = "rows"]
            /\ frows' = [frows EXCEPT ![f] = n]
            /\ UNCHANGED ferr
       \/ /\ fwpc' = [fwpc EXCEPT ![f] = "sendErr"]
          /\ ferr' = [ferr EXCEPT ![f] = IF f \in fctxDone THEN CtxErr
                                         ELSE IF f \in ftimedOut THEN DeadlineErr
                                         ELSE SourceErr]
          /\ UNCHANGED frows
    /\ UNCHANGED <<fkind, fkey, fctxDone, ftimedOut, facc, fchan, fchanClosed, fcpc,
                   events, fsent, femitted>>

\* the worker returns: defer close(resultChan)
WorkerReturn(f, sends, val) ==
    /\ fchan' = [fchan EXCEPT ![f] = IF sends THEN Append(@, val) ELSE @]
    /\ fsent' = [fsent EXCEPT ![f] = IF sends THEN Append(@, f \in fctxDone) ELSE @]
    /\ fchanClosed' = fchanClosed \cup {f}
    /\ fwpc' = [fwpc EXCEPT ![f] = "exited"]
    /\ ftimedOut' = ftimedOut \ {f}                   \* defer cancel() stops the timer
    /\ ferr' = [ferr EXCEPT ![f] = "nil"]
    /\ frows' = [frows EXCEPT ![f] = 0]
    /\ facc' = [facc EXCEPT ![f] = 0]

\* select { case resultChan <- result: ; case <-ctx.Done(): }; return
\* Go picks any case that is ready: the send is ready while the buffer has room,
\* the other case once ctx is cancelled.
WorkerSelectSend(f, val) ==
    \/ /\ Len(fchan[f]) < ResultCap
       /\ WorkerReturn(f, TRUE, val)
    \/ /\ f \in fctxDone
       /\ WorkerReturn(f, FALSE, val)

\* the error path without its return: the error is sent and the worker goes on to the
\* send after the row loop
WorkerSendErrNoReturn(f) ==
    /\ fwpc[f] = "sendErr"
    /\ Len(fchan[f]) < ResultCap
    /\ fchan' = [fchan EXCEPT ![f] = Append(@, AsyncQueryResult(ferr[f], 0))]
    /\ fsent' = [fsent EXCEPT ![f] = Append(@, f \in fctxDone)]
    /\ fwpc' = [fwpc EXCEPT ![f] = "send"]
    /\ UNCHANGED <<fkind, fkey, fctxDone, ftimedOut, ferr, frows, facc, fchanClosed,
                   fcpc, events, femitted>>

\* the error path: select { case resultChan <- AsyncQueryResult{Error: err} ... }
WorkerSendErr(f) ==
    /\ fwpc[f] = "sendErr"
    /\ WorkerSelectSend(f, AsyncQueryResult(ferr[f], 0))
    /\ UNCHANGED <<fkind, fkey, fctxDone, fcpc, events, femitted>>

\* one turn of for rows.Next() { select { case <-ctx.Done(): return; default: } ... }
\* Next() is false after the last row, and once queryCtx is done (sql closes the rows);
\* a row whose Scan fails is skipped.
WorkerRows(f) ==
    /\ fwpc[f] = "rows"
    /\ \/ /\ frows[f] = 0 \/ QueryCtxDone(f)
          /\ fwpc' = [fwpc EXCEPT ![f] = "send"]
          /\ frows' = [frows EXCEPT ![f] = 0]
          /\ UNCHANGED <<ftimedOut, ferr, facc, fchan, fchanClosed, fsent>>
       \/ /\ frows[f] > 0
          /\ IF f \in fctxDone
             THEN WorkerReturn(f, FALSE, ZeroResult)
             ELSE /\ frows' = [frows EXCEPT ![f] = @ - 1]
                  /\ \E scanned \in BOOLEAN :
                        facc' = [facc EXCEPT ![f] = IF scanned THEN @ + 1 ELSE @]
                  /\ UNCHANGED <<ftimedOut, ferr, fwpc, fchan, fchanClosed, fsent>>
    /\ UNCHANGED <<fkind, fkey, fctxDone, fcpc, events, femitted>>

\* after the loop: select { case resultChan <- AsyncQueryResult{...rows read}: ... }
WorkerSend(f) ==
    /\ fwpc[f] = "send"
    /\ WorkerSelectSend(f, AsyncQueryResult("nil", facc[f]))
    /\ UNCHANGED <<fkind, fkey, fctxDone, fcpc, events, femitted>>

\* the first part without its return: the empty map is sent and the goroutine goes on
\* to batchFetchSummaries
SummariesCheckNoReturn(f) ==
    /\ fwpc[f] = "check"
    /\ IF f \in fctxDone
       THEN /\ fchan' = [fchan EXCEPT ![f] = Append(@, AsyncQueryResult("nil", 0))]
            /\ fsent' = [fsent EXCEPT ![f] = Append(@, TRUE)]
            /\ fwpc' = [fwpc EXCEPT ![f] = "batch"]
       ELSE /\ fwpc' = [fwpc EXCEPT ![f] = "batch"]
            /\ UNCHANGED <<fchan, fsent>>
    /\ UNCHANGED <<fkind, fkey, fctxDone, ftimedOut, ferr, frows, facc, fchanClosed,
                   fcpc, events, femitted>>

\* FetchSessionSummariesAsync's goroutine, first part: a cancelled ctx makes it send an
\* empty map and return; the channel is never closed
SummariesCheck(f) ==
    /\ fwpc[f] = "check"
    /\ IF f \in fctxDone
       THEN /\ fchan' = [fchan EXCEPT ![f] = Append(@, AsyncQueryResult("nil", 0))]
            /\ fsent' = [fsent EXCEPT ![f] = Append(@, TRUE)]
            /\ fwpc' = [fwpc EXCEPT ![f] = "exited"]
       ELSE /\ fwpc' = [fwpc EXCEPT ![f] = "batch"]
            /\ UNCHANGED <<fchan, fsent>>
    /\ UNCHANGED <<fkind, fkey, fctxDone, ftimedOut, ferr, frows, facc, fchanClosed,
                   fcpc, events, femitted>>

\* second part: batchFetchSummaries, which takes no context. Its query
\* (database.Query) returns rows, or an error, on which it returns the empty map
\* (the two queries it runs one after the other are taken as one)
SummariesBatch(f) ==
    /\ fwpc[f] = "batch"
    /\ \/ \E n \in 0..MaxRows :
            /\ fwpc' = [fwpc EXCEPT ![f] = "batchRows"]
            /\ frows' = [frows EXCEPT ![f] = n]
            /\ UNCHANGED ferr
       \/ /\ fwpc' = [fwpc EXCEPT ![f] = "batchSend"]      \* err != nil: return summaries
          /\ ferr' = [ferr EXCEPT ![f] = SourceErr]
          /\ UNCHANGED frows
    /\ UNCHANGED <<fkind, fkey, fctxDone, ftimedOut, facc, fchan, fchanClosed,
                   fcpc, events, fsent, femitted>>

\* one turn of batchFetchSummaries' for rows.Next() { if Scan ... == nil { ... } }:
\* the loop looks at no context
SummariesRows(f) ==
    /\ fwpc[f] = "batchRows"
    /\ IF frows[f] = 0
       THEN /\ fwpc' = [fwpc EXCEPT ![f] = "batchSend"]
            /\ UNCHANGED <<frows, facc>>
       ELSE /\ frows' = [frows EXCEPT ![f] = @ - 1]
            /\ \E scanned \in BOOLEAN :
                  facc' = [facc EXCEPT ![f] = IF scanned THEN @ + 1 ELSE @]
            /\ UNCHANGED fwpc
    /\ UNCHANGED <<fkind, fkey, fctxDone, ftimedOut, ferr, fchan, fchanClosed,
                   fcpc, events, fsent, femitted>>

\* summariesChan <- summaries: the map batchFetchSummaries returned
SummariesSend(f) ==
    /\ fwpc[f] = "batchSend"
    /\ Len(fchan[f]) < ResultCap
    /\ fchan' = [fchan EXCEPT ![f] = Append(@, AsyncQueryResult("nil", facc[f]))]
    /\ fsent' = [fsent EXCEPT ![f] = Append(@, f \in fctxDone)]
    /\ fwpc' = [fwpc EXCEPT ![f] = "exited"]
    /\ frows' = [frows EXCEPT ![f] = 0]
    /\ facc' = [facc EXCEPT ![f] = 0]
    /\ ferr' = [ferr EXCEPT ![f] = "nil"]      \* batchFetchSummaries' err is gone with it
    /\ UNCHANGED <<fkind, fkey, fctxDone, ftimedOut, fchanClosed,
                   fcpc, events, femitted>>

\* a select that has only the receive: case result := <-resultChan
CmdReturnNoCtxCase(f) ==
    /\ fcpc[f] = "wait"
    /\ \/ /\ fchan[f] # <<>>
          /\ events' = Append(events, LoadedMsg(fkind[f], fkey[f], Head(fchan[f]).Error,
                                                Head(fchan[f]).n, f))
          /\ fchan' = [fchan EXCEPT ![f] = Tail(@)]
       \/ /\ fchan[f] = <<>>
          /\ f \in fchanClosed
          /\ events' = Append(events, LoadedMsg(fkind[f], fkey[f], ZeroResult.Error,
                                                ZeroResult.n, f))
          /\ UNCHANGED fchan
    /\ fcpc' = [fcpc EXCEPT ![f] = "returned"]
    /\ femitted' = [femitted EXCEPT ![f] = Append(@, f \in fctxDone)]
    /\ UNCHANGED <<fkind, fkey, fctxDone, ftimedOut, fwpc, ferr, frows, facc,
                   fchanClosed, fsent>>

\* Fetch*Async's select { case result := <-resultChan: ; case <-ctx.Done(): } and the
\* return of load*Cmd's function: the loaded event goes to the presentation loop
CmdReturn(f) ==
    /\ fcpc[f] = "wait"
    /\ \/ /\ fchan[f] # <<>>
          /\ events' = Append(events, LoadedMsg(fkind[f], fkey[f], Head(fchan[f]).Error,
                                                Head(fchan[f]).n, f))
          /\ fchan' = [fchan EXCEPT ![f] = Tail(@)]
       \/ /\ fchan[f] = <<>>
          /\ f \in fchanClosed
          /\ events' = Append(events, LoadedMsg(fkind[f], fkey[f], ZeroResult.Error,
                                                ZeroResult.n, f))
          /\ UNCHANGED fchan
       \/ /\ f \in fctxDone
          /\ events' = Append(events, LoadedMsg(fkind[f], fkey[f], CtxErr, 0, f))
          /\ UNCHANGED fchan
    /\ fcpc' = [fcpc EXCEPT ![f] = "returned"]
    /\ femitted' = [femitted EXCEPT ![f] = Append(@, f \in fctxDone)]
    /\ UNCHANGED <<fkind, fkey, fctxDone, ftimedOut, fwpc, ferr, frows, facc,
                   fchanClosed, fsent>>

NextFetchLayer ==
    \/ CallFetch
    \/ \E f \in Fetches : CancelCtx(f) /\ UNCHANGED <<execVars, tuiVars, lockVars, callVars, connVars>>
    \/ \E f \in Fetches : Timeout(f) /\ UNCHANGED <<execVars, tuiVars, lockVars, callVars, connVars>>
    \/ \E f \in Fetches : CmdStart(f) /\ UNCHANGED <<execVars, tuiVars, lockVars, callVars, connVars>>
    \/ \E f \in Fetches : WorkerQuery(f) /\ UNCHANGED <<execVars, tuiVars, lockVars, callVars, connVars>>
    \/ \E f \in Fetches : WorkerSendErr(f) /\ UNCHANGED <<execVars, tuiVars, lockVars, callVars, connVars>>
    \/ \E f \in Fetches : WorkerRows(f) /\ UNCHANGED <<execVars, tuiVars, lockVars, callVars, connVars>>
    \/ \E f \in Fetches : WorkerSend(f) /\ UNCHANGED <<execVars, tuiVars, lockVars, callVars, connVars>>
    \/ \E f \in Fetches : SummariesCheck(f) /\ UNCHANGED <<execVars, tuiVars, lockVars, callVars, connVars>>
    \/ \E f \in Fetches : SummariesBatch(f) /\ UNCHANGED <<execVars, tuiVars, lockVars, callVars, connVars>>
    \/ \E f \in Fetches : SummariesRows(f) /\ UNCHANGED <<execVars, tuiVars, lockVars, callVars, connVars>>
    \/ \E f \in Fetches : SummariesSend(f) /\ UNCHANGED <<execVars, tuiVars, lockVars, callVars, connVars>>
    \/ \E f \in Fetches : CmdReturn(f) /\ UNCHANGED <<execVars, tuiVars, lockVars, callVars, connVars>>


\* the fetches when nobody cancels
NextFetchUncancelled ==
    \/ CallFetch
    \/ \E f \in Fetches : Timeout(f) /\ UNCHANGED <<execVars, tuiVars, lockVars, callVars, connVars>>
    \/ \E f \in Fetches : CmdStart(f) /\ UNCHANGED <<execVars, tuiVars, lockVars, callVars, connVars>>
    \/ \E f \in Fetches : WorkerQuery(f) /\ UNCHANGED <<execVars, tuiVars, lockVars, callVars, connVars>>
    \/ \E f \in Fetches : WorkerSendErr(f) /\ UNCHANGED <<execVars, tuiVars, lockVars, callVars, connVars>>
    \/ \E f \in Fetches : WorkerRows(f) /\ UNCHANGED <<execVars, tuiVars, lockVars, callVars, connVars>>
    \/ \E f \in Fetches : WorkerSend(f) /\ UNCHANGED <<execVars, tuiVars, lockVars, callVars, connVars>>
    \/ \E f \in Fetches : SummariesCheck(f) /\ UNCHANGED <<execVars, tuiVars, lockVars, callVars, connVars>>
    \/ \E f \in Fetches : SummariesBatch(f) /\ UNCHANGED <<execVars, tuiVars, lockVars, callVars, connVars>>
    \/ \E f \in Fetches : SummariesRows(f) /\ UNCHANGED <<execVars, tuiVars, lockVars, callVars, connVars>>
    \/ \E f \in Fetches : SummariesSend(f) /\ UNCHANGED <<execVars, tuiVars, lockVars, callVars, connVars>>
    \/ \E f \in Fetches : CmdReturn(f) /\ UNCHANGED <<execVars, tuiVars, lockVars, callVars, connVars>>

\* db.QueryContext returns once queryCtx is done, whatever the source does
QueryAborts(f) == QueryCtxDone(f) /\ WorkerQuery(f)

\* what is certain to happen in a fetch: the goroutines run, a deadline that was set
\* expires, a call under a done context returns. Whether the source ever answers
\* (WorkerQuery under a live queryCtx, batchFetchSummaries) is not.
FetchFair(f) ==
    /\ WF_vars(CmdStart(f) /\ UNCHANGED <<execVars, tuiVars, lockVars, callVars, connVars>>)
    /\ WF_vars(Timeout(f) /\ UNCHANGED <<execVars, tuiVars, lockVars, callVars, connVars>>)
    /\ WF_vars(QueryAborts(f) /\ UNCHANGED <<execVars, tuiVars, lockVars, callVars, connVars>>)
    /\ WF_vars(WorkerSendErr(f) /\ UNCHANGED <<execVars, tuiVars, lockVars, callVars, connVars>>)
    /\ WF_vars(WorkerRows(f) /\ UNCHANGED <<execVars, tuiVars, lockVars, callVars, connVars>>)
    /\ WF_vars(WorkerSend(f) /\ UNCHANGED <<execVars, tuiVars, lockVars, callVars, connVars>>)
    /\ WF_vars(SummariesCheck(f) /\ UNCHANGED <<execVars, tuiVars, lockVars, callVars, connVars>>)
    /\ WF_vars(SummariesRows(f) /\ UNCHANGED <<execVars, tuiVars, lockVars, callVars, connVars>>)
    /\ WF_vars(SummariesSend(f) /\ UNCHANGED <<execVars, tuiVars, lockVars, callVars, connVars>>)
    /\ WF_vars(CmdReturn(f) /\ UNCHANGED <<execVars, tuiVars, lockVars, callVars, connVars>>)

\* db.SetMaxOpenConns(1): the pool of the shared *sql.DB has one connection. A query
\* takes it, waiting until it is free, and the rows it returns keep it until they are
\* closed: by Next() returning false, or by the deferred rows.Close() of a worker that
\* returns from inside its loop.
ConnInit == conn = None

\* QueryContext of a query worker: rows are returned with the connection taken; an
\* error is returned from the source, which needs the connection too, or when queryCtx
\* is done, which ends the wait for it
ConnWorkerQuery(f) ==
    /\ WorkerQuery(f)
    /\ IF fwpc'[f] = "rows"
       THEN conn = None /\ conn' = f
       ELSE (conn = None \/ QueryCtxDone(f)) /\ UNCHANGED conn

\* a row loop whose rows are never closed
ConnWorkerRowsKeepsConn(f) ==
    /\ WorkerRows(f)
    /\ UNCHANGED conn

\* the row loop of a query worker: the connection is given back when the loop is left
ConnWorkerRows(f) ==
    /\ WorkerRows(f)
    /\ conn' = IF fwpc'[f] = "rows" THEN conn ELSE None

\* database.Query of batchFetchSummaries: it has no context and waits for the
\* connection as long as it takes
ConnSummariesBatch(f) ==
    /\ conn = None
    /\ SummariesBatch(f)
    /\ conn' = IF fwpc'[f] = "batchRows" THEN f ELSE None

\* the row loop of batchFetchSummaries
ConnSummariesRows(f) ==
    /\ SummariesRows(f)
    /\ conn' = IF fwpc'[f] = "batchRows" THEN conn ELSE None

connFrame == <<execVars, tuiVars, lockVars, callVars>>

\* the fetches on the one connection, nobody cancelling
NextFetchConn ==
    \/ CallFetch
    \/ \E f \in Fetches : Timeout(f) /\ UNCHANGED connFrame /\ UNCHANGED conn
    \/ \E f \in Fetches : CmdStart(f) /\ UNCHANGED connFrame /\ UNCHANGED conn
    \/ \E f \in Fetches : ConnWorkerQuery(f) /\ UNCHANGED connFrame
    \/ \E f \in Fetches : WorkerSendErr(f) /\ UNCHANGED connFrame /\ UNCHANGED conn
    \/ \E f \in Fetches : ConnWorkerRows(f) /\ UNCHANGED connFrame
    \/ \E f \in Fetches : WorkerSend(f) /\ UNCHANGED connFrame /\ UNCHANGED conn
    \/ \E f \in Fetches : SummariesCheck(f) /\ UNCHANGED connFrame /\ UNCHANGED conn
    \/ \E f \in Fetches : ConnSummariesBatch(f) /\ UNCHANGED connFrame
    \/ \E f \in Fetches : ConnSummariesRows(f) /\ UNCHANGED connFrame
    \/ \E f \in Fetches : SummariesSend(f) /\ UNCHANGED connFrame /\ UNCHANGED conn
    \/ \E f \in Fetches : CmdReturn(f) /\ UNCHANGED connFrame /\ UNCHANGED conn

\* the fetches on the one connection, with callers that cancel
NextFetchConnCancel ==
    \/ CallFetch
    \/ \E f \in Fetches : CancelCtx(f) /\ UNCHANGED connFrame /\ UNCHANGED conn
    \/ \E f \in Fetches : Timeout(f) /\ UNCHANGED connFrame /\ UNCHANGED conn
    \/ \E f \in Fetches : CmdStart(f) /\ UNCHANGED connFrame /\ UNCHANGED conn
    \/ \E f \in Fetches : ConnWorkerQuery(f) /\ UNCHANGED connFrame
    \/ \E f \in Fetches : WorkerSendErr(f) /\ UNCHANGED connFrame /\ UNCHANGED conn
    \/ \E f \in Fetches : ConnWorkerRows(f) /\ UNCHANGED connFrame
    \/ \E f \in Fetches : WorkerSend(f) /\ UNCHANGED connFrame /\ UNCHANGED conn
    \/ \E f \in Fetches : SummariesCheck(f) /\ UNCHANGED connFrame /\ UNCHANGED conn
    \/ \E f \in Fetches : ConnSummariesBatch(f) /\ UNCHANGED connFrame
    \/ \E f \in Fetches : ConnSummariesRows(f) /\ UNCHANGED connFrame
    \/ \E f \in Fetches : SummariesSend(f) /\ UNCHANGED connFrame /\ UNCHANGED conn
    \/ \E f \in Fetches : CmdReturn(f) /\ UNCHANGED connFrame /\ UNCHANGED conn

\* the scheduling of the goroutines, and a source that answers every query it is sent
ConnFair(f) ==
    /\ WF_vars(CmdStart(f) /\ UNCHANGED connFrame /\ UNCHANGED conn)
    /\ WF_vars(ConnWorkerQuery(f) /\ UNCHANGED connFrame)
    /\ WF_vars(WorkerSendErr(f) /\ UNCHANGED connFrame /\ UNCHANGED conn)
    /\ WF_vars(ConnWorkerRows(f) /\ UNCHANGED connFrame)
    /\ WF_vars(WorkerSend(f) /\ UNCHANGED connFrame /\ UNCHANGED conn)
    /\ WF_vars(SummariesCheck(f) /\ UNCHANGED connFrame /\ UNCHANGED conn)
    /\ WF_vars(ConnSummariesBatch(f) /\ UNCHANGED connFrame)
    /\ WF_vars(ConnSummariesRows(f) /\ UNCHANGED connFrame)
    /\ WF_vars(SummariesSend(f) /\ UNCHANGED connFrame /\ UNCHANGED conn)
    /\ WF_vars(CmdReturn(f) /\ UNCHANGED connFrame /\ UNCHANGED conn)

\* the scheduling of the callers alone: a Fetch*Async call that can go on does;
\* nothing is said of the workers or of the source
CallerFair(f) ==
    /\ WF_vars(CmdStart(f) /\ UNCHANGED <<execVars, tuiVars, lockVars, callVars, connVars>>)
    /\ WF_vars(CmdReturn(f) /\ UNCHANGED <<execVars, tuiVars, lockVars, callVars, connVars>>)

(***************************************************************************)
(* The presentation loop: model.Update                                     *)
(***************************************************************************)

projectView == "projectView"
sessionView == "sessionView"

\* the sessions of the project, as FetchSessionsForProject returns them
ProjectSessions == <<"s1", "s2">>

NoEntries == [s \in {} |-> None]

\* what the messages pane shows: the messages of session of, or a text of the ui
Pane(tag, of, n) == [tag |-> tag, of |-> of, n |-> n]
NoMessages == Pane("empty", "", 0)
LoadingPane == Pane("loading", "", 0)

\* runTUI is still inside tui.ShowTUI
NoResume == [pc |-> "tui", launched |-> FALSE, sessionId |-> "", projectPath |-> ""]

\* initialModel: project view, cursors 0, empty cache, empty loading map, idle
TuiInit ==
    /\ m = [currentMode |-> projectView,
            sessionCursor |-> 0,
            selectedProject |-> FALSE,
            sessions |-> <<>>,
            selectedSession |-> "",
            currentMessages |-> NoMessages,
            messageCache |-> NoEntries,
            loadingMessages |-> {},
            loadingState |-> StateIdle,
            activeRequests |-> NoEntries,
            err |-> "nil",
            quitting |-> FALSE]
    /\ lastMsg = [type |-> "none", name |-> "", sid |-> "", tracked |-> FALSE,
                  Error |-> "nil", was |-> StateIdle]
    /\ upc = "idle"
    /\ resume = NoResume

\* the session under the cursor, "" when there is none
CursorSession(mm) ==
    IF mm.selectedProject /\ mm.sessionCursor < Len(mm.sessions)
    THEN mm.sessions[mm.sessionCursor + 1]
    ELSE ""

\* f with key k added or replaced
Put(f, k, v) == [x \in DOMAIN f \cup {k} |-> IF x = k THEN v ELSE f[x]]
\* f without key k
Drop(f, k) == [x \in DOMAIN f \ {k} |-> f[x]]

\* loadCurrentSessionMessages without the cache lookup
loadCurrentSessionMessagesNoCache(mm, f) ==
    LET sid == CursorSession(mm)
        others == mm.loadingMessages \ {sid}
        cancels == {mm.activeRequests[s] : s \in others \cap DOMAIN mm.activeRequests}
        m1 == [mm EXCEPT !.loadingMessages = @ \ others,
                         !.activeRequests = [s \in DOMAIN @ \ others |-> @[s]],
                         !.loadingState = IF others # {} /\ @ = StateLoadingMessages
                                          THEN StateIdle ELSE @]
    IN  IF sid = ""
        THEN [m |-> [mm EXCEPT !.currentMessages = NoMessages], load |-> "", cancels |-> {}]
        ELSE IF sid \in m1.loadingMessages
        THEN [m |-> [m1 EXCEPT !.currentMessages = LoadingPane],
              load |-> "", cancels |-> cancels]
        ELSE [m |-> [m1 EXCEPT !.currentMessages = LoadingPane,
                               !.loadingMessages = @ \cup {sid},
                               !.loadingState = StateLoadingMessages,
                               !.activeRequests = Put(@, sid, f)],
              load |-> sid, cancels |-> cancels]

\* loadCurrentSessionMessages, the asynchronous form: what the model becomes, the
\* session a loadMessagesCmd is returned for ("" for none), the cancel funcs called.
\*  - no session under the cursor: the pane is emptied;
\*  - a message fetch of another session is superseded: its cancel func is called,
\*    its request forgotten and its loading flag cleared;
\*  - cache hit: the pane shows the cached messages, nothing else happens;
\*  - the session is already loading: its request is reused;
\*  - otherwise the request is registered under a fresh context (fetch f), the
\*    session flagged loading, the state set to LoadingMessages.
loadCurrentSessionMessages(mm, f) ==
    LET sid == CursorSession(mm)
        others == mm.loadingMessages \ {sid}
        cancels == {mm.activeRequests[s] : s \in others \cap DOMAIN mm.activeRequests}
        m1 == [mm EXCEPT !.loadingMessages = @ \ others,
                         !.activeRequests = [s \in DOMAIN @ \ others |-> @[s]],
                         !.loadingState = IF others # {} /\ @ = StateLoadingMessages
                                          THEN StateIdle ELSE @]
    IN  IF sid = ""
        THEN [m |-> [mm EXCEPT !.currentMessages = NoMessages], load |-> "", cancels |-> {}]
        ELSE IF sid \in DOMAIN m1.messageCache
        THEN [m |-> [m1 EXCEPT !.currentMessages =
                                    Pane("messages", m1.messageCache[sid].of,
                                         m1.messageCache[sid].n)],
              load |-> "", cancels |-> cancels]
        ELSE IF sid \in m1.loadingMessages
        THEN [m |-> [m1 EXCEPT !.currentMessages = LoadingPane],
              load |-> "", cancels |-> cancels]
        ELSE [m |-> [m1 EXCEPT !.currentMessages = LoadingPane,
                               !.loadingMessages = @ \cup {sid},
                               !.loadingState = StateLoadingMessages,
                               !.activeRequests = Put(@, sid, f)],
              load |-> sid, cancels |-> cancels]

\* the model after a key, before the key is looked at: an error shown is dismissed
Dismissed(mm) ==
    [mm EXCEPT !.loadingState = IF @ = StateError THEN StateIdle ELSE @]

\* what a key does to the model: [m, load, cancels] as above
\* "up", "k"
KeyUp(mm, f) ==
    IF mm.currentMode = sessionView /\ mm.sessionCursor > 0
    THEN loadCurrentSessionMessages([mm EXCEPT !.sessionCursor = @ - 1], f)
    ELSE [m |-> mm, load |-> "", cancels |-> {}]

\* "down", "j"
KeyDown(mm, f) ==
    IF /\ mm.currentMode = sessionView
       /\ mm.selectedProject
       /\ mm.sessionCursor < Len(mm.sessions) - 1
    THEN loadCurrentSessionMessages([mm EXCEPT !.sessionCursor = @ + 1], f)
    ELSE [m |-> mm, load |-> "", cancels |-> {}]

\* "enter" in project view, FetchSessionsForProject having returned (list, err);
\* "enter" in session view: the session under the cursor is selected and the ui quits
KeyEnter(mm, f, list, err) ==
    IF mm.currentMode = projectView
    THEN IF err # "nil"
         THEN [m |-> [mm EXCEPT !.err = err], load |-> "", cancels |-> {}]
         ELSE loadCurrentSessionMessages(
                  [mm EXCEPT !.sessions = list,
                             !.selectedProject = TRUE,
                             !.currentMode = sessionView,
                             !.sessionCursor = 0], f)
    ELSE IF mm.selectedProject /\ mm.sessionCursor < Len(mm.sessions)
         THEN [m |-> [mm EXCEPT !.selectedSession = CursorSession(mm),
                                !.quitting = TRUE],
               load |-> "", cancels |-> {}]
         ELSE [m |-> mm, load |-> "", cancels |-> {}]

\* "esc" while a load is in progress that returns to idle and cancels nothing
KeyEscCancelsNothing(mm) ==
    IF mm.loadingState \in {StateLoadingProjects, StateLoadingSessions, StateLoadingMessages}
    THEN [m |-> [mm EXCEPT !.loadingState = StateIdle], load |-> "", cancels |-> {}]
    ELSE IF mm.currentMode = sessionView
         THEN [m |-> [mm EXCEPT !.currentMode = projectView,
                                !.selectedProject = FALSE,
                                !.sessionCursor = 0],
               load |-> "", cancels |-> {}]
         ELSE [m |-> mm, load |-> "", cancels |-> {}]

\* "esc" while a load is in progress: every active request is cancelled, the set
\* emptied, the state set to idle. Otherwise "esc", "backspace": back to project view.
KeyEsc(mm) ==
    IF mm.loadingState \in {StateLoadingProjects, StateLoadingSessions, StateLoadingMessages}
    THEN [m |-> [mm EXCEPT !.activeRequests = NoEntries,
                           !.loadingMessages = {},
                           !.loadingState = StateIdle,
                           !.currentMessages = IF @ = LoadingPane THEN NoMessages ELSE @],
          load |-> "",
          cancels |-> {mm.activeRequests[s] : s \in DOMAIN mm.activeRequests}]
    ELSE IF mm.currentMode = sessionView
         THEN [m |-> [mm EXCEPT !.currentMode = projectView,
                                !.selectedProject = FALSE,
                                !.sessionCursor = 0],
               load |-> "", cancels |-> {}]
         ELSE [m |-> mm, load |-> "", cancels |-> {}]

\* a quit key that also selects the session under the cursor
KeyQuitSelects(mm) ==
    [m |-> [mm EXCEPT !.quitting = TRUE, !.selectedSession = CursorSession(mm)],
     load |-> "", cancels |-> {}]

\* "ctrl+c", "q"
KeyQuit(mm) == [m |-> [mm EXCEPT !.quitting = TRUE], load |-> "", cancels |-> {}]

Keys == {"up", "down", "enter", "esc", "q"}

KeyResult(name, mm, f, list, err) ==
    CASE name = "up" -> KeyUp(mm, f)
      [] name = "down" -> KeyDown(mm, f)
      [] name = "enter" -> KeyEnter(mm, f, list, err)
      [] name = "esc" -> KeyEsc(mm)
      [] name = "q" -> KeyQuit(mm)

\* Update(tea.KeyMsg) of "enter" in project view reaches its call of
\* sessions.FetchSessionsForProject(project.Path): the loop is inside the call until
\* the source has answered
UpdateEnterCall ==
    /\ ~m.quitting
    /\ upc = "idle"
    /\ m.currentMode = projectView
    /\ upc' = "FetchSessionsForProject"
    /\ UNCHANGED <<m, lastMsg, resume>>
    /\ UNCHANGED <<execVars, fetchVars, lockVars, callVars, connVars>>

\* Update(tea.KeyMsg): the model changes, the cancel funcs are called, and the
\* loadMessagesCmd returned, if any, is handed to the runtime. For "enter" in project
\* view this is the rest of Update, FetchSessionsForProject having returned.
UpdateKey(name) ==
    /\ ~m.quitting
    /\ upc = IF name = "enter" /\ m.currentMode = projectView
             THEN "FetchSessionsForProject" ELSE "idle"
    /\ upc' = "idle"
    /\ UNCHANGED resume
    /\ \E f \in {NextFetch} :
       \E r \in IF name = "enter" /\ m.currentMode = projectView
                THEN {[list |-> ProjectSessions, err |-> "nil"],
                      [list |-> <<>>, err |-> "nil"],
                      [list |-> <<>>, err |-> SourceErr]}
                ELSE {[list |-> <<>>, err |-> "nil"]} :
         LET res == KeyResult(name, Dismissed(m), f, r.list, r.err) IN
            /\ res.load # "" => f # None
            /\ m' = res.m
            /\ lastMsg' = [type |-> "key", name |-> name, sid |-> CursorSession(res.m),
                           tracked |-> FALSE, Error |-> "nil", was |-> m.loadingState]
            /\ IF res.load # ""
               THEN IssueCmd(f, "messages", res.load, res.cancels)
               ELSE /\ fctxDone' = fctxDone \cup res.cancels
                    /\ UNCHANGED <<fkind, fkey, ftimedOut, fwpc, ferr, frows, facc, fchan,
                                   fchanClosed, fcpc, fsent, femitted>>
    /\ UNCHANGED events
    /\ UNCHANGED <<execVars, lockVars, callVars, connVars>>

\* a handler that leaves the loading state alone when the event carries an error
MessagesLoadedErrorKeepsLoading(mm, msg) ==
    LET sid == msg.key IN
    IF sid \in mm.loadingMessages
    THEN IF msg.Error # "nil"
         THEN [mm EXCEPT !.err = msg.Error]
         ELSE [mm EXCEPT !.loadingMessages = @ \ {sid},
                         !.activeRequests = Drop(@, sid),
                         !.messageCache = Put(@, sid, [of |-> msg.of, n |-> msg.n]),
                         !.loadingState = StateIdle,
                         !.currentMessages =
                             IF CursorSession(mm) = sid /\ mm.currentMode = sessionView
                             THEN Pane("messages", msg.of, msg.n) ELSE @]
    ELSE IF msg.Error = "nil" /\ sid \notin DOMAIN mm.messageCache
         THEN [mm EXCEPT !.messageCache = Put(@, sid, [of |-> msg.of, n |-> msg.n])]
         ELSE mm

\* what a MessagesLoadedMsg does to the model. It is applied when its session is
\* flagged loading (the request is the tracked one): the flag and the request are
\* removed; an error sets the error state and keeps the pane; messages are cached and,
\* when the session is the one under the cursor, shown, and the state returns to idle.
\* A result of a session that is not flagged loading is stale: it fills the cache when
\* it holds messages and the session has none cached, and is otherwise dropped.
MessagesLoaded(mm, msg) ==
    LET sid == msg.key IN
    IF sid \in mm.loadingMessages
    THEN LET m1 == [mm EXCEPT !.loadingMessages = @ \ {sid},
                              !.activeRequests = Drop(@, sid)]
         IN IF msg.Error # "nil"
            THEN [m1 EXCEPT !.loadingState = StateError, !.err = msg.Error]
            ELSE [m1 EXCEPT !.messageCache = Put(@, sid, [of |-> msg.of, n |-> msg.n]),
                            !.loadingState = StateIdle,
                            !.currentMessages =
                                IF CursorSession(mm) = sid /\ mm.currentMode = sessionView
                                THEN Pane("messages", msg.of, msg.n) ELSE @]
    ELSE IF msg.Error = "nil" /\ sid \notin DOMAIN mm.messageCache
         THEN [mm EXCEPT !.messageCache = Put(@, sid, [of |-> msg.of, n |-> msg.n])]
         ELSE mm

\* Update(MessagesLoadedMsg): the next loaded event is processed
UpdateLoaded ==
    /\ ~m.quitting
    /\ upc = "idle"
    /\ UNCHANGED <<upc, resume>>
    /\ events # <<>>
    /\ Head(events).type = "messages"
    /\ m' = MessagesLoaded(m, Head(events))
    /\ lastMsg' = [type |-> "loaded", name |-> "messages", sid |-> Head(events).key,
                   tracked |-> Head(events).key \in m.loadingMessages,
                   Error |-> Head(events).Error, was |-> m.loadingState]
    /\ events' = Tail(events)
    /\ UNCHANGED <<fkind, fkey, fctxDone, ftimedOut, fwpc, ferr, frows, facc, fchan,
                   fchanClosed, fcpc, fsent, femitted>>
    /\ UNCHANGED <<execVars, lockVars, callVars, connVars>>

\* View: the error text whenever m.err is set, the view of the current mode otherwise
View(mm) == IF mm.err # "nil" THEN "error" ELSE mm.currentMode

\* runTUI after tui.ShowTUI has returned the final model's selectedSession: nil makes
\* it return, otherwise it calls
\* sessions.ExecuteClaudeResume(selectedSession.SessionID, selectedSession.ProjectPath);
\* ProjectPath is the path FetchSessionsForProject was called with
RunTUIReturn ==
    /\ m.quitting
    /\ resume.pc = "tui"
    /\ resume' = IF m.selectedSession = ""
                 THEN [resume EXCEPT !.pc = "returned"]
                 ELSE [pc |-> "returned", launched |-> TRUE,
                       sessionId |-> m.selectedSession, projectPath |-> ProjectPath]
    /\ UNCHANGED <<m, lastMsg, upc>>
    /\ UNCHANGED <<execVars, fetchVars, lockVars, callVars, connVars>>

\* the workers and commands run beside the loop until the program has quit
Running == ~m.quitting /\ UNCHANGED <<execVars, tuiVars, lockVars, callVars, connVars>>

(***************************************************************************)
(* The batch lookup of summaries: batchFetchSummaries                      *)
(***************************************************************************)

\* the session ids a lookup may be asked for
BatchIds == 1..MaxIds

\* the uuid of the last event of a session, and the session of such a uuid
LastUuid(id) == 100 + id
SessionOfUuid(u) == u - 100
\* the summary the source holds for a leaf uuid
SummaryOf(u) == <<"summary", u>>

\* no call is under way
NoBatch == [pc |-> "none", sessionIDs |-> {}, withEvents |-> {}, summarised |-> {},
            rows |-> {}, sessionUuids |-> NoEntries, summaries |-> NoEntries,
            queries |-> 0, resolved |-> {}, err |-> "nil"]

\* no preview is being built
NoPreview == [pc |-> "none", total |-> 0, rows |-> <<>>, messages |-> <<>>,
              firstMessages |-> <<>>, lastMessages |-> <<>>, totalCount |-> 0,
              lastPosition |-> ""]

\* the directory the program was started in
StartDir == "."

\* ExecuteClaudeResume has not been called
NoResumeCall == [pc |-> "none", sessionID |-> "", projectPath |-> "", chdirOk |-> FALSE,
                 inPath |-> FALSE, installed |-> 0, cwd |-> StartDir,
                 claudePath |-> "", started |-> FALSE, argv |-> <<>>, runCwd |-> "",
                 err |-> "nil"]

\* wrapText has not been called
NoWrap == [pc |-> "none", text |-> <<>>, width |-> 0, words |-> <<>>,
           currentLine |-> <<>>, lines |-> <<>>]

\* FetchSessionsForProjectAsync has not been called
NoSessionsCall == [pc |-> "none", projectPath |-> "", rows |-> <<>>, sessions |-> <<>>,
                   out |-> <<>>, err |-> "nil"]

\* tui.go's program has not been started
NoModel == [pc |-> "none", projects |-> 0, currentMode |-> "projectView",
            projectCursor |-> 0, sessionCursor |-> 0, selectedProject |-> None,
            sessions |-> 0, selectedSession |-> None, err |-> "nil"]

CallInit ==
    sb = NoBatch /\ mp = NoPreview /\ rs = NoResumeCall /\ wt = NoWrap
        /\ sf = NoSessionsCall /\ tm = NoModel

\* a call FetchSessionSummariesAsync(ctx, projectPath, sessionIDs) with a ctx that is
\* never cancelled, against a source in which the sessions of withEvents have events
\* and those of summarised have a summary for their last event
BatchInit ==
    \E ids \in SUBSET BatchIds, ev \in SUBSET BatchIds, su \in SUBSET BatchIds :
        sb = [NoBatch EXCEPT !.pc = "call", !.sessionIDs = ids,
                             !.withEvents = ev, !.summarised = su]

\* FetchSessionSummariesAsync up to its goroutine: an empty id list returns an empty
\* map and no error at once; a failing os.UserHomeDir() or db.GetDB() returns the error
BatchCall ==
    /\ sb.pc = "call"
    /\ \/ /\ sb.sessionIDs = {}
          /\ sb' = [sb EXCEPT !.pc = "returned"]
       \/ /\ sb.sessionIDs # {}
          /\ \/ sb' = [sb EXCEPT !.pc = "returned", !.err = SourceErr]
             \/ sb' = [sb EXCEPT !.pc = "query1"]

\* a lookup that asks the source once for every session id
BatchQueryPerId ==
    /\ sb.pc = "query1"
    /\ IF sb.sessionIDs = {}
       THEN sb' = [sb EXCEPT !.pc = "send"]
       ELSE \/ sb' = [sb EXCEPT !.pc = "send", !.queries = @ + 1]
            \/ sb' = [sb EXCEPT !.pc = "rows1", !.queries = @ + Cardinality(sb.sessionIDs),
                                !.rows = sb.sessionIDs \cap sb.withEvents]

\* batchFetchSummaries, query 1: the last uuid of every session asked for
\* (WHERE sessionId IN (...)); on an error the empty map is returned
BatchQuery1 ==
    /\ sb.pc = "query1"
    /\ IF sb.sessionIDs = {}
       THEN sb' = [sb EXCEPT !.pc = "send"]
       ELSE \/ sb' = [sb EXCEPT !.pc = "send", !.queries = @ + 1]
            \/ sb' = [sb EXCEPT !.pc = "rows1", !.queries = @ + 1,
                                !.rows = sb.sessionIDs \cap sb.withEvents]

\* one turn of for rows.Next() { if Scan(&sessionID, &uuid) == nil { sessionUuids[...] } }
\* Next() is false after the last row, or earlier when the source fails; then, with no
\* uuid found the empty map is returned
BatchRows1 ==
    /\ sb.pc = "rows1"
    /\ \/ /\ \E id \in sb.rows :
               \E scanned \in BOOLEAN :
                  sb' = [sb EXCEPT !.rows = @ \ {id},
                                   !.sessionUuids = IF scanned THEN Put(@, id, LastUuid(id))
                                                    ELSE @]
       \/ sb' = [sb EXCEPT !.rows = {},
                           !.pc = IF DOMAIN sb.sessionUuids = {} THEN "send" ELSE "query2"]

\* query 2: the summaries whose leafUuid is one of the uuids found; on an error the
\* map, still empty, is returned
BatchQuery2 ==
    /\ sb.pc = "query2"
    /\ \/ sb' = [sb EXCEPT !.pc = "send", !.queries = @ + 1]
       \/ sb' = [sb EXCEPT !.pc = "rows2", !.queries = @ + 1,
                           !.rows = {sb.sessionUuids[id] : id \in DOMAIN sb.sessionUuids
                                                               \cap sb.summarised}]

\* a second loop that starts from a new map at every row
BatchRows2Forgets ==
    /\ sb.pc = "rows2"
    /\ \/ /\ \E u \in sb.rows :
               \E scanned \in BOOLEAN :
                  sb' = [sb EXCEPT !.rows = @ \ {u},
                                   !.summaries =
                                       IF scanned
                                       THEN Put(NoEntries, SessionOfUuid(u), SummaryOf(u))
                                       ELSE @,
                                   !.resolved = IF scanned THEN @ \cup {SessionOfUuid(u)}
                                                ELSE @]
       \/ sb' = [sb EXCEPT !.rows = {}, !.pc = "send"]

\* one turn of for rows2.Next() { if Scan(&leafUuid, &summary) == nil {
\*     if sessionID, ok := uuidToSession[leafUuid]; ok { summaries[sessionID] = summary } } }
BatchRows2 ==
    /\ sb.pc = "rows2"
    /\ \/ /\ \E u \in sb.rows :
               \E scanned \in BOOLEAN :
                  sb' = [sb EXCEPT !.rows = @ \ {u},
                                   !.summaries =
                                       IF scanned /\ \E id \in DOMAIN sb.sessionUuids :
                                                         sb.sessionUuids[id] = u
                                       THEN Put(@, SessionOfUuid(u), SummaryOf(u))
                                       ELSE @,
                                   !.resolved = IF scanned THEN @ \cup {SessionOfUuid(u)}
                                                ELSE @]
       \/ sb' = [sb EXCEPT !.rows = {}, !.pc = "send"]

\* summariesChan <- summaries; the select of FetchSessionSummariesAsync receives it and
\* returns (summaries, nil)
BatchReturn ==
    /\ sb.pc = "send"
    /\ sb' = [sb EXCEPT !.pc = "returned"]

batchFrame == <<execVars, fetchVars, tuiVars, lockVars, mp, rs, wt, sf, tm, connVars>>

NextBatch ==
    \/ BatchCall /\ UNCHANGED batchFrame
    \/ BatchQuery1 /\ UNCHANGED batchFrame
    \/ BatchRows1 /\ UNCHANGED batchFrame
    \/ BatchQuery2 /\ UNCHANGED batchFrame
    \/ BatchRows2 /\ UNCHANGED batchFrame
    \/ BatchReturn /\ UNCHANGED batchFrame

Next ==
    \/ UpdateEnterCall
    \/ \E name \in Keys : UpdateKey(name)
    \/ UpdateLoaded
    \/ RunTUIReturn
    \/ \E f \in Fetches : CmdStart(f) /\ Running
    \/ \E f \in Fetches : WorkerQuery(f) /\ Running
    \/ \E f \in Fetches : WorkerSendErr(f) /\ Running
    \/ \E f \in Fetches : WorkerRows(f) /\ Running
    \/ \E f \in Fetches : WorkerSend(f) /\ Running
    \/ \E f \in Fetches : CmdReturn(f) /\ Running

Init == ExecInit /\ FetchInit /\ TuiInit /\ LockInit /\ ConnInit /\ CallInit

Spec == Init /\ [][Next]_vars

SpecExec == Init /\ [][NextExec]_vars

SpecFetch == Init /\ [][NextFetchLayer]_vars

InitQueueFull == ExecInitQueueFull /\ FetchInit /\ TuiInit /\ LockInit /\ ConnInit /\ CallInit

SpecFetchLive ==
    Init /\ [][NextFetchUncancelled]_vars /\ \A f \in Fetches : FetchFair(f)

SpecLock == Init /\ [][NextLock]_vars

SpecFetchConn ==
    Init /\ [][NextFetchConn]_vars /\ \A f \in Fetches : ConnFair(f)

SpecFetchConnCancel == Init /\ [][NextFetchConnCancel]_vars

(***************************************************************************)
(* The message preview: the row loop of FetchRecentMessagesForSession and  *)
(* of ExecuteMessagesQueryAsync (the same statements in both)              *)
(***************************************************************************)

\* the i-th message of the session in timestamp order, formatted, and the omission line
\* fmt.Sprintf("... (%d messages omitted) ...", k)
Msg(i) == [kind |-> "msg", n |-> i]
Marker(k) == [kind |-> "omitted", n |-> k]

\* the rows of messagesQuery for a session of total messages: those with
\* row_num_asc <= 10 OR row_num_desc <= 10, ORDER BY timestamp ASC, each with its
\* position ('first' WHEN row_num_asc <= 10, 'last' WHEN row_num_desc <= 10) and
\* total_count
MessageRows(total) ==
    LET all == [i \in 1..total |->
                  [msg |-> i,
                   position |-> IF i <= PreviewEdge THEN "first" ELSE "last",
                   count |-> total]]
        kept(r) == r.msg <= PreviewEdge \/ total - r.msg + 1 <= PreviewEdge
    IN  SelectSeq(all, kept)

\* the query has returned the rows of a session of total messages
PreviewInit ==
    \E total \in 0..MaxMsgs :
        mp = [NoPreview EXCEPT !.pc = "rows", !.total = total, !.rows = MessageRows(total)]

\* a row loop that puts no omission line between the first and the last messages
PreviewRowNoMarker ==
    /\ mp.pc = "rows"
    /\ mp.rows # <<>>
    /\ LET row == Head(mp.rows)
           m1 == [mp EXCEPT !.rows = Tail(@), !.totalCount = row.count]
       IN  mp' =
             IF row.position = "first"
             THEN [m1 EXCEPT !.firstMessages = Append(@, Msg(row.msg)),
                             !.lastPosition = "first"]
             ELSE IF mp.lastPosition = "first" /\ Len(mp.lastMessages) = 0
             THEN IF m1.totalCount > PreviewFull
                  THEN [m1 EXCEPT !.messages = @ \o mp.firstMessages,
                                  !.lastMessages = Append(@, Msg(row.msg)),
                                  !.lastPosition = "last"]
                  ELSE [m1 EXCEPT !.firstMessages = Append(@, Msg(row.msg)),
                                  !.lastPosition = "last"]
             ELSE [m1 EXCEPT !.lastMessages = Append(@, Msg(row.msg)),
                             !.lastPosition = "last"]

\* one turn of the row loop: the row is scanned and its message formatted; a 'first'
\* row goes to firstMessages; the first 'last' row after a 'first' one either closes
\* the head (first messages and omission line into messages, the row into
\* lastMessages) when totalCount > 20, or is appended to firstMessages; every other
\* 'last' row goes to lastMessages
PreviewRow ==
    /\ mp.pc = "rows"
    /\ mp.rows # <<>>
    /\ LET row == Head(mp.rows)
           m1 == [mp EXCEPT !.rows = Tail(@), !.totalCount = row.count]
       IN  mp' =
             IF row.position = "first"
             THEN [m1 EXCEPT !.firstMessages = Append(@, Msg(row.msg)),
                             !.lastPosition = "first"]
             ELSE IF mp.lastPosition = "first" /\ Len(mp.lastMessages) = 0
             THEN IF m1.totalCount > PreviewFull
                  THEN [m1 EXCEPT !.messages =
                                      Append(@ \o mp.firstMessages,
                                             Marker(m1.totalCount - PreviewFull)),
                                  !.lastMessages = Append(@, Msg(row.msg)),
                                  !.lastPosition = "last"]
                  ELSE [m1 EXCEPT !.firstMessages = Append(@, Msg(row.msg)),
                                  !.lastPosition = "last"]
             ELSE [m1 EXCEPT !.lastMessages = Append(@, Msg(row.msg)),
                             !.lastPosition = "last"]

\* after the loop: if len(lastMessages) > 0 { messages = append(messages,
\* lastMessages...) } else { messages = firstMessages }; return messages
PreviewCombine ==
    /\ mp.pc = "rows"
    /\ mp.rows = <<>>
    /\ mp' = [mp EXCEPT !.pc = "returned",
                        !.messages = IF Len(mp.lastMessages) > 0
                                     THEN @ \o mp.lastMessages
                                     ELSE mp.firstMessages]

previewFrame == <<execVars, fetchVars, tuiVars, lockVars, sb, rs, wt, sf, tm, connVars>>

NextPreview ==
    \/ PreviewRow /\ UNCHANGED previewFrame
    \/ PreviewCombine /\ UNCHANGED previewFrame

InitPreview ==
    ExecInit /\ FetchInit /\ TuiInit /\ LockInit /\ ConnInit /\ sb = NoBatch /\ PreviewInit
        /\ rs = NoResumeCall /\ wt = NoWrap /\ sf = NoSessionsCall /\ tm = NoModel

SpecPreview == InitPreview /\ [][NextPreview]_vars

(***************************************************************************)
(* The resume: ExecuteClaudeResume                                         *)
(***************************************************************************)

\* the project paths a session may carry: none, the COALESCE(cwd, 'Unknown') of the
\* projects query, a directory
ResumePaths == {"", "Unknown", ProjectPath}

\* possiblePaths, in the order they are tried
PossiblePaths == <<"~/.claude/local/claude", "/usr/local/bin/claude",
                   "/opt/homebrew/bin/claude">>

\* ExecuteClaudeResume(sessionID, projectPath) is called; chdirOk tells whether
\* os.Chdir(projectPath) can succeed, inPath whether claude is in PATH, installed
\* which of possiblePaths is the first that exists (0 for none)
ResumeInit ==
    \E sid \in SessionIDs, path \in ResumePaths, ok \in BOOLEAN, inp \in BOOLEAN,
       inst \in 0..Len(PossiblePaths) :
        rs = [NoResumeCall EXCEPT !.pc = "chdir", !.sessionID = sid, !.projectPath = path,
                                  !.chdirOk = ok, !.inPath = inp, !.installed = inst]

\* a directory change whose error is ignored
ResumeChdirIgnoresError ==
    /\ rs.pc = "chdir"
    /\ rs' = IF rs.projectPath # "" /\ rs.projectPath # "Unknown" /\ rs.chdirOk
             THEN [rs EXCEPT !.pc = "lookup", !.cwd = rs.projectPath]
             ELSE [rs EXCEPT !.pc = "lookup"]

\* if projectPath != "" && projectPath != "Unknown" { if err := os.Chdir(projectPath);
\* err != nil { return fmt.Errorf(...) } }
ResumeChdir ==
    /\ rs.pc = "chdir"
    /\ rs' = IF rs.projectPath # "" /\ rs.projectPath # "Unknown"
             THEN IF rs.chdirOk
                  THEN [rs EXCEPT !.pc = "lookup", !.cwd = rs.projectPath]
                  ELSE [rs EXCEPT !.pc = "returned", !.err = "failed to change to project directory"]
             ELSE [rs EXCEPT !.pc = "lookup"]

\* claudePath: "claude", or the first of possiblePaths that exists when claude is not
\* in PATH
ResumeLookPath ==
    /\ rs.pc = "lookup"
    /\ rs' = [rs EXCEPT !.pc = "run",
                        !.claudePath = IF ~rs.inPath /\ rs.installed > 0
                                       THEN PossiblePaths[rs.installed]
                                       ELSE "claude"]

\* exec.Command(claudePath, "--resume", sessionID) ... return cmd.Run(): the process
\* is started in the current directory when the executable is found, and Run returns
\* its error otherwise, or the one the process ends with
ResumeRun ==
    /\ rs.pc = "run"
    /\ IF rs.inPath \/ rs.installed > 0
       THEN \E e \in {"nil", "exit status 1"} :
               rs' = [rs EXCEPT !.pc = "returned", !.started = TRUE,
                                !.argv = <<rs.claudePath, "--resume", rs.sessionID>>,
                                !.runCwd = rs.cwd, !.err = e]
       ELSE rs' = [rs EXCEPT !.pc = "returned", !.err = "executable file not found"]

resumeFrame == <<execVars, fetchVars, tuiVars, lockVars, sb, mp, wt, sf, tm, connVars>>

NextResume ==
    \/ ResumeChdir /\ UNCHANGED resumeFrame
    \/ ResumeLookPath /\ UNCHANGED resumeFrame
    \/ ResumeRun /\ UNCHANGED resumeFrame

InitResume ==
    ExecInit /\ FetchInit /\ TuiInit /\ LockInit /\ ConnInit /\ sb = NoBatch /\ mp = NoPreview
        /\ ResumeInit /\ wt = NoWrap /\ sf = NoSessionsCall /\ tm = NoModel

SpecResume == InitResume /\ [][NextResume]_vars

(***************************************************************************)
(* wrapText                                                                *)
(***************************************************************************)

\* a text is a sequence of characters; these are the letter and the blank
Chars == {"a", " "}

\* the texts of up to MaxText characters
RECURSIVE TextsOfLen(_)
TextsOfLen(n) ==
    IF n = 0 THEN {<<>>}
    ELSE {Append(t, ch) : t \in TextsOfLen(n - 1), ch \in Chars}
Texts == UNION {TextsOfLen(n) : n \in 0..MaxText}

\* strings.Fields(text): the maximal runs of non-blank characters, in order.
\* word is the run being read.
RECURSIVE FieldsFrom(_, _)
FieldsFrom(text, word) ==
    IF text = <<>>
    THEN IF word = <<>> THEN <<>> ELSE <<word>>
    ELSE IF Head(text) = " "
         THEN IF word = <<>> THEN FieldsFrom(Tail(text), <<>>)
              ELSE <<word>> \o FieldsFrom(Tail(text), <<>>)
         ELSE FieldsFrom(Tail(text), Append(word, Head(text)))
Fields(text) == FieldsFrom(text, <<>>)

\* wrapText(text, width) is called
WrapInit ==
    \E text \in Texts, width \in (0 - MaxWidth)..MaxWidth :
        wt = [NoWrap EXCEPT !.pc = "start", !.text = text, !.width = width]

\* if width <= 0 { return []string{text} }; words := strings.Fields(text);
\* if len(words) == 0 { return []string{text} }; currentLine := words[0]
WrapStart ==
    /\ wt.pc = "start"
    /\ wt' = IF wt.width <= 0 \/ Len(Fields(wt.text)) = 0
             THEN [wt EXCEPT !.pc = "returned", !.lines = <<wt.text>>]
             ELSE [wt EXCEPT !.pc = "words", !.words = Tail(Fields(wt.text)),
                             !.currentLine = Head(Fields(wt.text))]

\* one turn of for _, word := range words[1:]: when currentLine, a blank and the word
\* are longer than width the line is closed and the word starts the next one,
\* otherwise the word is added to the line
WrapWord ==
    /\ wt.pc = "words"
    /\ wt.words # <<>>
    /\ LET word == Head(wt.words) IN
       wt' = IF Len(wt.currentLine) + 1 + Len(word) > wt.width
             THEN [wt EXCEPT !.words = Tail(@), !.lines = Append(@, wt.currentLine),
                             !.currentLine = word]
             ELSE [wt EXCEPT !.words = Tail(@),
                             !.currentLine = @ \o <<" ">> \o word]

\* if currentLine != "" { lines = append(lines, currentLine) }; return lines
WrapEnd ==
    /\ wt.pc = "words"
    /\ wt.words = <<>>
    /\ wt' = [wt EXCEPT !.pc = "returned",
                        !.lines = IF wt.currentLine # <<>> THEN Append(@, wt.currentLine)
                                  ELSE @]

wrapFrame == <<execVars, fetchVars, tuiVars, lockVars, sb, mp, rs, sf, tm, connVars>>

NextWrap ==
    \/ WrapStart /\ UNCHANGED wrapFrame
    \/ WrapWord /\ UNCHANGED wrapFrame
    \/ WrapEnd /\ UNCHANGED wrapFrame

InitWrap ==
    ExecInit /\ FetchInit /\ TuiInit /\ LockInit /\ ConnInit /\ sb = NoBatch /\ mp = NoPreview
        /\ rs = NoResumeCall /\ WrapInit /\ sf = NoSessionsCall /\ tm = NoModel

SpecWrap == InitWrap /\ [][NextWrap]_vars

InitBatch ==
    ExecInit /\ FetchInit /\ TuiInit /\ LockInit /\ ConnInit /\ BatchInit /\ mp = NoPreview
        /\ rs = NoResumeCall /\ wt = NoWrap /\ sf = NoSessionsCall /\ tm = NoModel

SpecBatch == InitBatch /\ [][NextBatch]_vars

(***************************************************************************)
(* FetchSessionsForProjectAsync: from the rows of the query to the         *)
(* sessions returned                                                       *)
(***************************************************************************)

\* models.Session; its zero value is what var session models.Session declares
Session(id, path, summary, resumed) ==
    [SessionID |-> id, ProjectPath |-> path, Summary |-> summary, IsResumed |-> resumed]
ZeroSession == Session("", "", "", FALSE)

\* the project paths asked for ("" asks for the sessions without a cwd)
SessionPaths == {"", "/a", "/b"}

\* a row of sessionsQuery: session_id, last_activity, is_resumed, and whether
\* rows.Scan accepts it
SessionRows == [SessionID : {"s1", "s2"}, isResumed : BOOLEAN, scans : BOOLEAN]

RECURSIVE SeqsUpTo(_, _)
SeqsUpTo(S, n) ==
    IF n = 0 THEN {<<>>}
    ELSE LET shorter == SeqsUpTo(S, n - 1) IN
         shorter \cup {Append(q, x) : q \in {t \in shorter : Len(t) = n - 1}, x \in S}

\* a call FetchSessionsForProjectAsync(ctx, projectPath) with a ctx that is never
\* cancelled, against a source whose query returns rows
SessionsInit ==
    \E path \in SessionPaths, rows \in SeqsUpTo(SessionRows, MaxScan) :
        sf = [NoSessionsCall EXCEPT !.pc = "query", !.projectPath = path, !.rows = rows]

\* ExecuteSessionsQueryAsync: rows, err := db.QueryContext(queryCtx, query, args...);
\* on an error the worker sends it and FetchSessionsForProjectAsync returns nil with it
SessionsQuery ==
    /\ sf.pc = "query"
    /\ \/ sf' = [sf EXCEPT !.pc = "rows"]
       \/ sf' = [sf EXCEPT !.pc = "returned", !.rows = <<>>, !.err = SourceErr]

\* one turn of for rows.Next(): var session models.Session;
\* if Scan(&session.SessionID, &lastActivity, &isResumed) fails, continue;
\* session.IsResumed = isResumed; sessions = append(sessions, session)
SessionsScan ==
    /\ sf.pc = "rows"
    /\ sf.rows # <<>>
    /\ LET row == Head(sf.rows) IN
       sf' = IF row.scans
             THEN [sf EXCEPT !.rows = Tail(@),
                             !.sessions = Append(@, [ZeroSession EXCEPT
                                                        !.SessionID = row.SessionID,
                                                        !.IsResumed = row.isResumed])]
             ELSE [sf EXCEPT !.rows = Tail(@)]

\* FetchSessionsForProjectAsync that returns the sessions as the worker sent them
SessionsReturnAsScanned ==
    /\ sf.pc = "rows"
    /\ sf.rows = <<>>
    /\ sf' = [sf EXCEPT !.pc = "returned", !.out = sf.sessions]

\* the worker sends AsyncQueryResult{Sessions: sessions}; FetchSessionsForProjectAsync
\* receives it: for i := range result.Sessions { result.Sessions[i].ProjectPath =
\* projectPath }; return result.Sessions, nil
SessionsReturn ==
    /\ sf.pc = "rows"
    /\ sf.rows = <<>>
    /\ sf' = [sf EXCEPT !.pc = "returned",
                        !.out = [i \in 1..Len(sf.sessions) |->
                                    [sf.sessions[i] EXCEPT !.ProjectPath = sf.projectPath]]]

sessionsFrame == <<execVars, fetchVars, tuiVars, lockVars, sb, mp, rs, wt, tm, connVars>>

NextSessions ==
    \/ SessionsQuery /\ UNCHANGED sessionsFrame
    \/ SessionsScan /\ UNCHANGED sessionsFrame
    \/ SessionsReturn /\ UNCHANGED sessionsFrame

InitSessions ==
    ExecInit /\ FetchInit /\ TuiInit /\ LockInit /\ ConnInit /\ sb = NoBatch /\ mp = NoPreview
        /\ rs = NoResumeCall /\ wt = NoWrap /\ SessionsInit /\ tm = NoModel

SpecSessions == InitSessions /\ [][NextSessions]_vars

(***************************************************************************)
(* tui.go: model.Update, key by key                                        *)
(***************************************************************************)

\* initialModel(projects): the project view with both cursors at 0
initialModel ==
    \E n \in 0..MaxProjects :
        tm = [NoModel EXCEPT !.pc = "running", !.projects = n]

\* case "up", "k"
TuiUp ==
    /\ tm.pc = "running"
    /\ tm' = IF tm.currentMode = projectView
             THEN (IF tm.projectCursor > 0
                   THEN [tm EXCEPT !.projectCursor = @ - 1] ELSE tm)
             ELSE (IF tm.sessionCursor > 0
                   THEN [tm EXCEPT !.sessionCursor = @ - 1] ELSE tm)

\* case "down", "j" without the comparison with the length of the list
TuiDownNoBound ==
    /\ tm.pc = "running"
    /\ tm' = IF tm.currentMode = projectView
             THEN [tm EXCEPT !.projectCursor = @ + 1]
             ELSE [tm EXCEPT !.sessionCursor = @ + 1]

\* case "down", "j"
TuiDown ==
    /\ tm.pc = "running"
    /\ tm' = IF tm.currentMode = projectView
             THEN (IF tm.projectCursor < tm.projects - 1
                   THEN [tm EXCEPT !.projectCursor = @ + 1] ELSE tm)
             ELSE (IF tm.selectedProject # None /\ tm.sessionCursor < tm.sessions - 1
                   THEN [tm EXCEPT !.sessionCursor = @ + 1] ELSE tm)

\* case "enter": in the project view FetchSessionsForProject(project.Path) is called
\* for the project under the cursor; an error is kept and the view stays, otherwise
\* the session view opens on its sessions with sessionCursor = 0. In the session view
\* the session under the cursor is selected and the program quits.
TuiEnter ==
    /\ tm.pc = "running"
    /\ IF tm.currentMode = projectView
       THEN IF tm.projectCursor < tm.projects
            THEN \/ tm' = [tm EXCEPT !.err = SourceErr]
                 \/ \E n \in 0..MaxSessions :
                       tm' = [tm EXCEPT !.selectedProject = tm.projectCursor + 1,
                                        !.sessions = n,
                                        !.currentMode = sessionView,
                                        !.sessionCursor = 0]
            ELSE tm' = tm
       ELSE IF tm.selectedProject # None /\ tm.sessionCursor < tm.sessions
            THEN tm' = [tm EXCEPT !.selectedSession = tm.sessionCursor + 1, !.pc = "quit"]
            ELSE tm' = tm

\* case "esc", "backspace"
TuiEsc ==
    /\ tm.pc = "running"
    /\ tm' = IF tm.currentMode = sessionView
             THEN [tm EXCEPT !.currentMode = projectView, !.selectedProject = None,
                             !.sessionCursor = 0]
             ELSE tm

\* case "ctrl+c", "q": return m, tea.Quit
TuiQuit ==
    /\ tm.pc = "running"
    /\ tm' = [tm EXCEPT !.pc = "quit"]

tuiGoFrame == <<execVars, fetchVars, tuiVars, lockVars, sb, mp, rs, wt, sf, connVars>>

NextTuiGo ==
    \/ TuiUp /\ UNCHANGED tuiGoFrame
    \/ TuiDown /\ UNCHANGED tuiGoFrame
    \/ TuiEnter /\ UNCHANGED tuiGoFrame
    \/ TuiEsc /\ UNCHANGED tuiGoFrame
    \/ TuiQuit /\ UNCHANGED tuiGoFrame

InitTuiGo ==
    ExecInit /\ FetchInit /\ TuiInit /\ LockInit /\ ConnInit /\ sb = NoBatch /\ mp = NoPreview
        /\ rs = NoResumeCall /\ wt = NoWrap /\ sf = NoSessionsCall /\ initialModel

SpecTuiGo == InitTuiGo /\ [][NextTuiGo]_vars

SpecFetchCallers ==
    Init /\ [][NextFetchLayer]_vars /\ \A f \in Fetches : CallerFair(f)

SpecQueueFull == InitQueueFull /\ [][NextExecSubmit]_vars

(***************************************************************************)
(* Claims about AsyncExecutor                                              *)
(***************************************************************************)

\* every request whose Submit returned an id has been handled to the end
AllSettled == \A r \in ReqIds : reqState[r] \notin {"queued", "handling"}

\* C4: once every submitted request has completed (run to the end, or cancelled and
\* returned), the contexts map is empty; every entry handleRequest added was removed
\* exactly once.
C4_RegistryEmptyWhenSettled ==
    /\ \A r \in ReqIds : removed[r] <= added[r] /\ added[r] <= 1
    /\ AllSettled => /\ contexts = {}
                     /\ \A r \in ReqIds : removed[r] = added[r]

\* C4 witness: both requests were handled, one cancelled and one not, and the map is empty
C4_Witness ==
    /\ \A r \in ReqIds : reqState[r] = "done" /\ added[r] = 1
    /\ \E r \in ReqIds : r \in ctxCancelled
    /\ \E r \in ReqIds : ~CtxDone(r)
    /\ contexts = {}

\* C5 (as claimed): from the moment Submit returned the id until the request's end,
\* the id is a key of the contexts map.
C5_EntryFromSubmitToEnd ==
    \A r \in ReqIds : reqState[r] \in {"queued", "handling"} => r \in contexts

\* C6: Cancel of an id that is not in the map changes nothing of the executor (no entry
\* added or removed, no cancel func called or held, no other request touched); calling
\* a cancel func a second time changes nothing, and calling it touches its own request only.
C6_CancelAbsentIsNoOp ==
    [][/\ \A r \in ReqIds :
            (Cancel(r) /\ r \notin contexts) =>
                UNCHANGED <<closed, requests, contexts, reqState, callerDone,
                            ctxCancelled, heldCancels, wpc, wreq, wrows, results,
                            panicked, added, removed>>
       /\ \A r \in ReqIds :
            InvokeCancel(r) =>
                /\ ctxCancelled' \ {r} = ctxCancelled \ {r}
                /\ (r \in ctxCancelled => ctxCancelled' = ctxCancelled)
                /\ contexts' = contexts]_vars

\* C6 witness: Cancel was just called for a request that already finished, while
\* another request is running uncancelled and nobody holds its cancel func
C6_Witness ==
    /\ lastCall.op = "Cancel"
    /\ ~lastCall.found
    /\ reqState[lastCall.id] = "done"
    /\ \E q \in ReqIds : /\ q # lastCall.id
                          /\ reqState[q] = "handling"
                          /\ q \in contexts
                          /\ ~CtxDone(q)
                          /\ q \notin heldCancels

\* C10 (as claimed): a request that was accepted and not cancelled has, once it is
\* finished, exactly one SQLResult delivered to the consumer.
C10_OneOutcomeDelivered ==
    \A r \in ReqIds :
        (reqState[r] = "done" /\ ~CtxDone(r)) =>
            Cardinality({x \in results : x.RequestID = r}) = 1

(***************************************************************************)
(* Fetches: outcomes and cancellation                                      *)
(***************************************************************************)

\* C2: for every fetch and every load command built on it, the worker puts at most one
\* value on its result channel before it closes the channel, and the command hands at
\* most one loaded event to the consumer, whatever the order of query completion, query
\* error and cancellation.
C2_AtMostOneOutcome ==
    \A f \in Fetches :
        /\ Len(fsent[f]) <= 1
        /\ Len(femitted[f]) <= 1
        /\ Cardinality({i \in 1..Len(events) : events[i].from = f}) <= 1
        /\ f \in fchanClosed => fwpc[f] = "exited"

\* two fetches have ended, one cancelled after its worker's send, one with a query error
C2_Witness ==
    \E f, g \in Fetches :
        /\ f # g
        /\ fkind[f] \in QueryKinds /\ fkind[g] \in QueryKinds
        /\ f \in fctxDone /\ f \in fchanClosed
        /\ Len(fsent[f]) = 1 /\ Len(femitted[f]) = 1
        /\ fcpc[g] = "returned" /\ g \in fchanClosed
        /\ \E i \in 1..Len(events) : events[i].from = g /\ events[i].Error = SourceErr

\* C3: once the context of a fetch is cancelled nothing is delivered for it: the worker
\* sends no value on the result channel and the command hands no loaded event to the
\* presentation loop, for every kind of fetch.
C3_NothingDeliveredAfterCancel ==
    \A f \in Fetches :
        /\ \A i \in 1..Len(fsent[f]) : ~fsent[f][i]
        /\ \A i \in 1..Len(femitted[f]) : ~femitted[f][i]

(***************************************************************************)
(* The presentation loop: stale results, cache, loading state, ESC         *)
(***************************************************************************)

\* in session view the pane shows messages of the session under the cursor, or none
PaneShowsCursorSession ==
    (m.currentMode = sessionView /\ CursorSession(m) # "")
        => m.currentMessages.of \in {"", CursorSession(m)}

C11_SubmitNeverWaits ==
    \A r \in ReqIds :
        reqState[r] = "checked"
            => (closed \/ Len(requests) < QueueCap \/ r \in callerDone)

\* C12: CancelAll takes the cancel func of every entry of the map and removes no entry;
\* a cancel func it took is dropped only by being called; an entry leaves the map only
\* in the deferred delete of the handler of that request.
C12_CancelAllKeepsEntries ==
    [][/\ CancelAll => (contexts' = contexts /\ contexts \subseteq heldCancels')
       /\ \A r \in heldCancels \ heldCancels' : r \in ctxCancelled'
       /\ \A r \in contexts \ contexts' : wpc = "cleanup" /\ r = wreq]_vars

\* CancelAll found a request registered and its cancel func has been called: the
\* request is cancelled, still being handled and still in the map
C12_Witness ==
    /\ lastCall.op = "CancelAll" /\ lastCall.found
    /\ heldCancels = {}
    /\ \E r \in ReqIds : /\ r \in contexts /\ r \in ctxCancelled
                          /\ r \notin callerDone
                          /\ reqState[r] = "handling"

\* the goroutines that are at a write, at a read of the map
MapWriters == {p \in {"handler"} : lpc[p] \in {"store", "delete"}}
MapReaders == {p \in Procs : \/ p = "cancel" /\ lpc[p] = "lookup"
                             \/ p = "cancelAll" /\ lpc[p] = "copy"
                             \/ p = "close" /\ lpc[p] = "closing"}

\* C13: a goroutine that is at a read or a write of e.contexts holds e.mu, a writer
\* holds it exclusively, and no goroutine is at an access of the map while another one
\* is at a write of it.
C13_MapAccessUnderLock ==
    /\ \A p \in MapWriters : mu.w = p /\ mu.r = {}
    /\ \A p \in MapReaders : p \in mu.r \/ mu.w = p
    /\ \A p \in MapWriters : (MapWriters \cup MapReaders) \ {p} = {}
    /\ mu.w # NoProc => mu.r = {}

\* Cancel and CancelAll read the map at the same time, the handler between its store
\* and its delete
C13_Witness ==
    /\ lpc["cancel"] = "lookup" /\ lpc["cancelAll"] = "copy"
    /\ lpc["handler"] = "run"
    /\ contexts # {}
    /\ mu.r = {"cancel", "cancelAll"}

(***************************************************************************)
(* Fetches: deadlines, cancellation between rows, errors                    *)
(***************************************************************************)

\* C14: every fetch, of every kind, ends without anyone cancelling it even when the
\* source never answers: its worker exits and its command returns.
C14_EveryFetchTerminates ==
    \A f \in Fetches :
        (fkind[f] # "none") ~> (fcpc[f] = "returned" /\ fwpc[f] = "exited")

\* C15: for every kind of fetch, once ctx is cancelled the worker processes no further
\* row: no step of a row loop consumes a row of a fetch whose ctx is already cancelled.
C15_NoRowAfterCancel ==
    [][\A f \in Fetches :
          (f \in fctxDone /\ fwpc[f] \in {"rows", "batchRows"})
              => ~(fwpc'[f] = fwpc[f] /\ frows'[f] = frows[f] - 1)]_vars

\* C16: a fetch whose deadline has expired ends with an error outcome: whenever the
\* worker of such a fetch sends on its result channel, the value sent carries an error,
\* never a result made of the rows read so far.
C16_DeadlineIsError ==
    [][\A f \in Fetches :
          (f \in ftimedOut /\ Len(fsent'[f]) = Len(fsent[f]) + 1)
              => fchan'[f][Len(fchan'[f])].Error # "nil"]_vars

\* C17: a failure of the source during a fetch whose ctx is live reaches the
\* presentation loop as an error: the worker that got the error from its query ends by
\* sending a value that carries it, and the loaded event made of a received value has
\* that value's Error.
C17_SourceErrorReachesLoop ==
    [][\A f \in Fetches :
          /\ (ferr[f] = SourceErr /\ f \notin fctxDone /\ fwpc'[f] = "exited")
                => /\ Len(fchan'[f]) = Len(fchan[f]) + 1
                   /\ fchan'[f][Len(fchan'[f])].Error = SourceErr
          /\ (fcpc[f] = "wait" /\ fcpc'[f] = "returned" /\ f \notin fctxDone
                             /\ fchan[f] # <<>>)
                => events'[Len(events')].Error = Head(fchan[f]).Error]_vars

\* C18: an error shown is not permanent: when the view shows an error and the user
\* presses enter again in project view and the sessions are fetched (the ui enters
\* session view), the view no longer shows the error.
C18_RetryLeavesErrorView ==
    [][(View(m) = "error" /\ m.currentMode = projectView /\ m'.currentMode = sessionView)
          => View(m') # "error"]_vars

\* C19: every loaded event of a fetch that was issued for a key (the sessions and the
\* summaries of a project, the messages of a session) carries that key, whatever its
\* payload or error.
C19_LoadedEventCarriesKey ==
    \A i \in 1..Len(events) :
        events[i].type \in {"sessions", "messages", "summaries"}
            => events[i].key = fkey[events[i].from]

\* C20: the presentation loop never waits for the source: Update is never inside a
\* call to the source, so a key that arrives is processed whether or not the source
\* answers.
C20_LoopNeverInsideSourceCall == upc = "idle"

(***************************************************************************)
(* Claims about the Fetch*Async calls                                      *)
(***************************************************************************)

\* C21: once the ctx given to a Fetch*Async call is cancelled, the call eventually
\* returns to its caller, whatever its worker and the source do.
C21_CancelledCallReturns ==
    \A f \in Fetches : (fkind[f] # "none" /\ f \in fctxDone) ~> (fcpc[f] = "returned")

\* a cancelled call has returned while its worker is still inside the query
C21_Witness ==
    \E f \in Fetches : /\ f \in fctxDone
                        /\ fcpc[f] = "returned"
                        /\ fwpc[f] \in {"query", "batch"}
                        /\ femitted[f] = <<TRUE>>

\* C22: no worker is ever blocked at the send of its result: where a worker is about
\* to send, the buffer of its channel has room (or, for the select of the query
\* workers, ctx is done), whether or not the caller is still there to receive.
C22_WorkerNeverBlockedAtSend ==
    \A f \in Fetches :
        /\ fwpc[f] \in {"send", "sendErr"} => (Len(fchan[f]) < ResultCap \/ f \in fctxDone)
        /\ fwpc[f] \in {"check", "batchSend"} => Len(fchan[f]) < ResultCap

\* a worker has sent its result and ended after its caller had returned on ctx.Done():
\* the value stays in the buffer
C22_Witness ==
    \E f \in Fetches : /\ fwpc[f] = "exited"
                        /\ fcpc[f] = "returned"
                        /\ Len(fchan[f]) = ResultCap
                        /\ fsent[f] = <<TRUE>>
                        /\ femitted[f] = <<TRUE>>

(***************************************************************************)
(* Claims about the batch lookup of summaries                              *)
(***************************************************************************)

\* C23: a summary fetch issues at most two queries whatever the number of session ids,
\* and for no id it issues none and returns an empty map and no error.
C23_AtMostTwoQueries ==
    /\ sb.queries <= 2
    /\ (sb.sessionIDs = {} /\ sb.pc = "returned")
          => (sb.queries = 0 /\ sb.summaries = NoEntries /\ sb.err = "nil")

\* a fetch for MaxIds ids has returned a summary for each of them with two queries
C23_Witness ==
    /\ sb.pc = "returned"
    /\ sb.sessionIDs = BatchIds
    /\ DOMAIN sb.summaries = BatchIds
    /\ sb.queries = 2

\* C24: the map of a batch lookup holds exactly the sessions whose summary the lookup
\* resolved, each with the summary of its last event; what was resolved stays in the
\* map when other rows fail or the rows end early.
C24_ResolvedSummariesKept ==
    /\ DOMAIN sb.summaries = sb.resolved
    /\ \A id \in DOMAIN sb.summaries :
          /\ id \in sb.sessionIDs \cap sb.withEvents \cap sb.summarised
          /\ sb.summaries[id] = SummaryOf(LastUuid(id))

\* every session asked for has a summary in the source, the lookup lost some of the
\* rows, and the map returned holds the others
C24_Witness ==
    /\ sb.pc = "returned"
    /\ sb.sessionIDs = BatchIds /\ sb.withEvents = BatchIds /\ sb.summarised = BatchIds
    /\ Cardinality(DOMAIN sb.summaries) = MaxIds - 1
    /\ Cardinality(DOMAIN sb.sessionUuids) = MaxIds

(***************************************************************************)
(* Claims about the message preview                                        *)
(***************************************************************************)

\* the messages from-th to to-th of the session, in order
MsgRange(from, to) == [i \in 1..(to - from + 1) |-> Msg(from + i - 1)]

C26_ShortSessionPreview ==
    (mp.pc = "returned" /\ mp.total <= PreviewFull)
        => mp.messages = MsgRange(1, mp.total)

(***************************************************************************)
(* Claims about the resume                                                 *)
(***************************************************************************)

C28_ResumeInProjectDir ==
    /\ rs.started =>
          /\ Tail(rs.argv) = <<"--resume", rs.sessionID>>
          /\ rs.runCwd = IF rs.projectPath \in {"", "Unknown"} THEN StartDir
                         ELSE rs.projectPath
    /\ (rs.pc = "returned" /\ rs.projectPath \notin {"", "Unknown"} /\ ~rs.chdirOk)
          => (~rs.started /\ rs.err # "nil")

\* claude has been started in the project directory
C28_Witness ==
    /\ rs.started
    /\ rs.projectPath = ProjectPath
    /\ rs.runCwd = ProjectPath
    /\ rs.argv = <<"claude", "--resume", "s1">>

(***************************************************************************)
(* Claims about the shared connection                                      *)
(***************************************************************************)

C30_WrappedLinesFit ==
    wt.pc = "returned" =>
        /\ (wt.width > 0 /\ Fields(wt.text) # <<>>)
              => \A i \in 1..Len(wt.lines) : Len(wt.lines[i]) <= wt.width
        /\ (wt.width <= 0 \/ Fields(wt.text) = <<>>) => wt.lines = <<wt.text>>

(***************************************************************************)
(* Further claims about the Fetch*Async calls                              *)
(***************************************************************************)

\* C31: a Fetch*Async call whose ctx is cancelled while its worker has sent nothing
\* returns the error of the context: the loaded event made of what it returns carries
\* that error, never a nil error.
C31_CancelledCallReturnsCtxErr ==
    [][\A f \in Fetches :
          (fcpc[f] = "wait" /\ fcpc'[f] = "returned" /\ f \in fctxDone /\ fsent[f] = <<>>)
              => events'[Len(events')].Error = CtxErr]_vars

(***************************************************************************)
(* Further claims about AsyncExecutor                                      *)
(***************************************************************************)

\* C32: a Cancel(id) or CancelAll call made while the request is accepted (its Submit
\* returned the id) and not finished, waiting in the channel included, gets hold of
\* the request's cancel func, or that func was already called: the request cannot go
\* on under an uncancelled context.
C32_CancelReachesAcceptedRequest ==
    [][\A r \in ReqIds :
          (/\ reqState[r] \in {"queued", "handling"}
           /\ lastCall' # lastCall
           /\ \/ lastCall'.op = "CancelAll"
              \/ lastCall'.op = "Cancel" /\ lastCall'.id = r)
              => (r \in heldCancels' \/ r \in ctxCancelled)]_vars

\* C33: no Submit call ever sends on the requests channel after Close closed it.
C33_NoSendOnClosedChannel ==
    ~panicked

\* C34: Close is idempotent and final. The first call sets closed (the channel is
\* closed with it), calls the cancel func of every entry of the map and leaves the
\* queue as it is; a later call changes nothing of the executor; closed is never
\* reset; a Submit call that starts when closed is set returns "" and enqueues
\* nothing, and a rejected request is never enqueued later.
C34_CloseIdempotentAndFinal ==
    [][/\ (~closed /\ closed')
            => /\ contexts \subseteq ctxCancelled'
               /\ UNCHANGED <<requests, contexts, reqState, panicked>>
       /\ closed => closed'
       /\ (closed /\ lastCall'.op = "Close" /\ lastCall' # lastCall)
            => UNCHANGED <<closed, requests, contexts, reqState, callerDone,
                           ctxCancelled, heldCancels, wpc, wreq, wrows, results,
                           panicked, added, removed>>
       /\ (closed /\ lastCall'.op = "Submit" /\ lastCall' # lastCall)
            => /\ reqState'[lastCall'.id] = "rejected"
               /\ requests' = requests
       /\ \A r \in ReqIds : reqState[r] = "rejected" => reqState'[r] = "rejected"]_vars

\* C34 witness: Close was called a second time, after the first call had cancelled the
\* request in progress and a Submit call made after it was turned away
C34_Witness ==
    /\ closed
    /\ lastCall = [op |-> "Close", id |-> None, found |-> FALSE]
    /\ \E r \in ReqIds : r \in contexts /\ r \in ctxCancelled /\ r \notin callerDone
    /\ \E r \in ReqIds : reqState[r] = "rejected" /\ r \notin callerDone
    /\ ~panicked

\* C35: once the executor is closed no query runs under a live context. Close cancels
\* the request in progress, so a query that has returned rows under a context nobody
\* cancelled is the query of a request taken from the channel after Close.
C35_NoQueryAfterClose ==
    closed => ~(wpc = "rows" /\ ~CtxDone(wreq))

\* C36: with the one worker Start launches, requests run one at a time in the order
\* they were put on the channel: the map never holds more than one entry; the channel
\* only grows at its tail and shrinks at its head; a request begins only as the head
\* of the channel, when no other request is in progress and the map is empty.
C36_OneAtATimeInOrder ==
    /\ [](Cardinality(contexts) <= 1 /\ (contexts # {} => contexts = {wreq}))
    /\ [][/\ requests' # requests
                => \/ requests # <<>> /\ requests' = Tail(requests)
                   \/ \E r \in ReqIds : requests' = Append(requests, r)
           /\ \A r \in ReqIds :
                 (reqState[r] # "handling" /\ reqState'[r] = "handling")
                    => /\ requests # <<>>
                       /\ r = Head(requests)
                       /\ requests' = Tail(requests)
                       /\ \A q \in ReqIds : reqState[q] # "handling"
                       /\ contexts = {}
                       /\ contexts' = {r}]_vars

\* C36 witness: the second request is in progress after the first has finished, and it
\* is the only entry of the map
C36_Witness ==
    /\ reqState[1] = "done"
    /\ reqState[2] = "handling"
    /\ wpc = "rows"
    /\ contexts = {2}
    /\ added[1] = 1

(***************************************************************************)
(* Further claims about the one connection                                 *)
(***************************************************************************)

\* C37: the worker of a fetch whose ctx is cancelled does not keep the one connection
\* from a later fetch: when it has the connection, the next thing it does gives it
\* back (it reads no further row of its query).
C37_CancelledFetchFreesConn ==
    [][\A f \in Fetches :
          (f \in fctxDone /\ conn = f /\ (fwpc'[f] # fwpc[f] \/ frows'[f] # frows[f]))
             => conn' # f]_vars

(***************************************************************************)
(* Claims about FetchSessionsForProjectAsync                               *)
(***************************************************************************)

\* C38: every session FetchSessionsForProjectAsync(ctx, projectPath) returns has
\* ProjectPath = projectPath and an empty Summary.
C38_SessionsCarryPathNoSummary ==
    sf.pc = "returned" =>
        \A i \in 1..Len(sf.out) :
            sf.out[i].ProjectPath = sf.projectPath /\ sf.out[i].Summary = ""

\* C38 witness: a call for a named project has returned two sessions
C38_Witness ==
    /\ sf.pc = "returned"
    /\ sf.projectPath = "/a"
    /\ Len(sf.out) = 2
    /\ sf.out[1].SessionID # sf.out[2].SessionID
    /\ sf.err = "nil"

(***************************************************************************)
(* Claims about the cursors of tui.go                                      *)
(***************************************************************************)

\* a cursor of a list of n entries: within 0..n-1, and 0 when the list is empty
CursorIn(cursor, n) == cursor >= 0 /\ cursor <= (IF n = 0 THEN 0 ELSE n - 1)

\* C39: after any sequence of keys projectCursor is within the list of projects (0
\* when there is none) and, in the session view, sessionCursor is within the sessions
\* of the selected project (0 when there is none); entering a project and leaving the
\* session view with Esc both set sessionCursor to 0.
C39_CursorsInBounds ==
    /\ [](/\ CursorIn(tm.projectCursor, tm.projects)
          /\ tm.currentMode = sessionView => CursorIn(tm.sessionCursor, tm.sessions))
    /\ [][tm'.currentMode # tm.currentMode => tm'.sessionCursor = 0]_vars

\* C39 witness: both cursors are on the last entry of their list
C39_Witness ==
    /\ tm.currentMode = sessionView
    /\ tm.projects = MaxProjects
    /\ tm.projectCursor = MaxProjects - 1
    /\ tm.sessions = MaxSessions
    /\ tm.sessionCursor = MaxSessions - 1

=============================================================================
